---- MODULE Spec2Model ----
(***************************************************************************)
(* A model of the JBeam export path of jbeam_editor:                       *)
(*   export_vehicle.py  update_ast_nodes / add_jbeam_nodes /               *)
(*                      delete_jbeam_node / compare_and_set_value,         *)
(*                      _get_nodes_add_delete_rename, export;              *)
(* and of the table-schema processor:                                      *)
(*   jbeam/table_schema.py  process_table_with_schema_destructive,         *)
(*                      process, post_process.                             *)
(*                                                                         *)
(* Conventions.                                                            *)
(*  - Python indices are kept 0-based in every variable; At(s, i) reads    *)
(*    the element the code calls s[i].                                     *)
(*  - Python None is -1 for an index and <<>> for an optional string       *)
(*    (<<"k">> is the string "k").                                         *)
(*  - A dict is a sequence of <<key, value>> pairs in insertion order.     *)
(*  - A number is an integer count of 2^-26 (One is 1.0): a double whose   *)
(*    mantissa may be longer than the 24 bits a C float keeps.             *)
(*  - The text of a separator token is a sequence of characters.           *)
(*  - A value of a logical tree is [kind, val] with kind one of "dict",    *)
(*    "list", "str", "num".                                                *)
(*  - A value of a vehicle or of a table is <<tag, value>> with tag one of *)
(*    "str", "int", "bool", "list", "dict", "Metadata".                    *)
(***************************************************************************)
EXTENDS Integers, Sequences, FiniteSets, TLC

VARIABLES
    \* ---- update_ast_nodes: arguments
    ast_nodes,                          \* the token list, mutated in place
    current_jbeam_file_data,            \* the before-tree
    current_jbeam_file_data_modified,   \* the after-tree
    jbeam_part,
    nodes_to_add,                       \* dict id -> pos, insertion order
    nodes_to_delete,                    \* dict id -> pos
    \* ---- update_ast_nodes: locals
    i, stack, in_dict, pos_in_arr, temp_dict_key, dict_key,
    jbeam_entry_start_node_idx, jbeam_entry_end_node_idx,
    jbeam_section_start_node_idx, jbeam_section_end_node_idx,
    jbeam_node_id,
    pc,                                 \* position of the run
    \* ---- history kept for the properties
    ast_input,                          \* the token list as it was passed in
    pass,                               \* 1: the first patch, 2: the patch after a re-parse
    \* ---- _get_nodes_add_delete_rename: argument and locals
    bm,                                 \* bm.verts, the init id layer mutated in place
    all_nodes, node_id_to_part_origin, node_renames, true_node_renames,
    vert_idx, row_idx,                  \* positions of the two loops
    bm_input,                           \* history: bm.verts as passed in
    \* ---- export
    disk,                               \* the file's text
    writes,                             \* history: the writes of the file so far
    meshes,                             \* per part object, its mesh's verts
    parts_changed,                      \* the part objects still to come
    \* ---- table_schema
    memo,                               \* the module's memo dict
    jbeam_table, new_dict, input_options,   \* process_table_with_schema_destructive: arguments
    vehicle,                            \* process, post_process: argument, mutated in place
    ret,                                \* <<v>> when the last call returned v
    calls,                              \* history: the calls of the table processor so far
    vehicle_input                       \* history: vehicle as passed in

patchVars == <<ast_nodes, current_jbeam_file_data, current_jbeam_file_data_modified,
               jbeam_part, nodes_to_add, nodes_to_delete, i, stack, in_dict,
               pos_in_arr, temp_dict_key, dict_key, jbeam_entry_start_node_idx,
               jbeam_entry_end_node_idx, jbeam_section_start_node_idx,
               jbeam_section_end_node_idx, jbeam_node_id, pc, ast_input, pass>>

reconVars == <<bm, all_nodes, node_id_to_part_origin, node_renames, true_node_renames,
               vert_idx, row_idx, bm_input>>

exportVars == <<disk, writes, meshes, parts_changed>>

schemaVars == <<memo, jbeam_table, new_dict, input_options, vehicle, ret, calls, vehicle_input>>

vars == <<patchVars, reconVars, exportVars, schemaVars>>

-----------------------------------------------------------------------------
(* Sequences, Python style *)

At(s, k) == s[k + 1]

Min(a, b) == IF a < b THEN a ELSE b
Max(a, b) == IF a > b THEN a ELSE b

\* s[a:b] for 0 <= a, b (clamped as Python clamps a slice)
Slice(s, a, b) == SubSeq(s, Min(a, Len(s)) + 1, Min(b, Len(s)))

\* s[a:]
SliceFrom(s, a) == Slice(s, a, Len(s))

\* list.insert(k, x) for each x of xs in turn at k, k+1, ...
InsertAll(s, k, xs) == Slice(s, 0, k) \o xs \o SliceFrom(s, k)

\* del s[a:b]
DelRange(s, a, b) == Slice(s, 0, a) \o SliceFrom(s, b)

SetAt(s, k, x) == [s EXCEPT ![k + 1] = x]

\* index of the first c in s, or -1
RECURSIVE FirstIndexFrom(_, _, _)
FirstIndexFrom(s, c, k) ==
    IF k >= Len(s) THEN -1
    ELSE IF At(s, k) = c THEN k
    ELSE FirstIndexFrom(s, c, k + 1)

FirstIndex(s, c) == FirstIndexFrom(s, c, 0)

\* index of the last c in s, or -1
RECURSIVE LastIndexFrom(_, _, _)
LastIndexFrom(s, c, k) ==
    IF k < 0 THEN -1
    ELSE IF At(s, k) = c THEN k
    ELSE LastIndexFrom(s, c, k - 1)

LastIndex(s, c) == LastIndexFrom(s, c, Len(s) - 1)

Repeat(c, n) == [k \in 1..n |-> c]

-----------------------------------------------------------------------------
(* Dicts in insertion order *)

DictKeys(d) == {d[k][1] : k \in 1..Len(d)}

DictHas(d, key) == key \in DictKeys(d)

DictGet(d, key) == d[CHOOSE k \in 1..Len(d) : d[k][1] = key][2]

DictSet(d, key, val) ==
    IF DictHas(d, key)
    THEN [k \in 1..Len(d) |-> IF d[k][1] = key THEN <<key, val>> ELSE d[k]]
    ELSE Append(d, <<key, val>>)

DictPop(d, key) == SelectSeq(d, LAMBDA e : e[1] # key)

-----------------------------------------------------------------------------
(* Numbers *)

One == 2 ^ 26

Abs(x) == IF x < 0 THEN -x ELSE x

RECURSIVE BitLen(_)
BitLen(n) == IF n = 0 THEN 0 ELSE 1 + BitLen(n \div 2)

\* ctypes.c_float(num).value: the nearest value with a 24-bit mantissa,
\* ties to the even mantissa
RoundToFloat(n) ==
    IF BitLen(n) <= 24 THEN n
    ELSE LET q   == 2 ^ (BitLen(n) - 24)
             m   == n \div q
             rem == n % q
             up  == (2 * rem > q) \/ (2 * rem = q /\ m % 2 = 1)
         IN  (IF up THEN m + 1 ELSE m) * q

\* the number itself, at the precision the trees hold it in
to_c_double(num) == num

to_c_float(num) == IF num < 0 THEN -RoundToFloat(-num) ELSE RoundToFloat(num)

\* to_float_str: the C float's count of ten-thousandths, the nearest one.
\* The fraction r / 2^26 is r * 625 / 2^22 ten-thousandths, computed in two
\* halves of r to stay within 32 bits.
to_float_str(val) ==
    LET f    == Abs(to_c_float(val))
        r    == f % One
        high == (r \div 2048) * 625
        rest == (high % 2048) * 2048 + (r % 2048) * 625
        q    == (f \div One) * 10000 + high \div 2048 + rest \div (2 ^ 22)
        rem  == rest % (2 ^ 22)
        up   == (2 * rem > 2 ^ 22) \/ (2 * rem = 2 ^ 22 /\ q % 2 = 1)
        n    == IF up THEN q + 1 ELSE q
    IN  IF val < 0 THEN -n ELSE n

\* The decimal expansion of a fraction r / One, 0 < r < One: the number of
\* zeros after the point, then four significant digits and what is left.
RECURSIVE LeadingZeros(_)
LeadingZeros(r) == IF r * 10 >= One THEN 0 ELSE 1 + LeadingZeros(r * 10)

RECURSIVE ShiftOut(_, _)
ShiftOut(r, z) == IF z = 0 THEN r ELSE ShiftOut(r * 10, z - 1)

RECURSIVE Digits(_, _, _)
Digits(r, n, acc) ==
    IF n = 0 THEN <<acc, r>>
    ELSE Digits((r * 10) % One, n - 1, acc * 10 + (r * 10) \div One)

RECURSIVE TrailingZeros(_)
TrailingZeros(d) == IF d % 10 # 0 THEN 0 ELSE 1 + TrailingZeros(d \div 10)

\* len('%.4g' % frac) for the fraction r / One
LenG4(r) ==
    IF r = 0 THEN 1
    ELSE LET z    == LeadingZeros(r)
             dr   == Digits(ShiftOut(r, z), 4, 0)
             up   == (2 * dr[2] > One) \/ (2 * dr[2] = One /\ dr[1] % 2 = 1)
             d0   == IF up THEN dr[1] + 1 ELSE dr[1]
             \* a carry out of the fourth digit moves the decimal exponent
             zz   == IF d0 = 10000 THEN z - 1 ELSE z
             d    == IF d0 = 10000 THEN 1000 ELSE d0
             s    == 4 - TrailingZeros(d)
         IN  IF zz < 0 THEN 1                                   \* '1'
             ELSE IF zz >= 4                                    \* exponent < -4
                  THEN (IF s = 1 THEN 1 ELSE s + 1) + 4         \* 'd.ddde-05'
                  ELSE 2 + zz + s                               \* '0.00ddd'

get_float_precision(val) == Min(4, Max(LenG4(Abs(val) % One) - 2, 0))

-----------------------------------------------------------------------------
(* Tokens (sjsonast.ASTNode) *)

StrT == "\""

\* src is history: the token's index in the list first passed in, -1 for a
\* token made since. The code never reads it.
ASTNode(data_type, value, precision) ==
    [data_type |-> data_type, value |-> value, precision |-> precision, src |-> -1]

Wsc(text)   == ASTNode("wsc", text, 0)
StrTok(s)   == ASTNode(StrT, s, 0)
NumTok(v)   == ASTNode("number", v, get_float_precision(v))
Sym(c)      == ASTNode(c, <<>>, 0)

IsOpen(node)  == node.data_type \in {"{", "["}
IsClose(node) == node.data_type \in {"}", "]"}

NL == "\n"


-----------------------------------------------------------------------------
(* Logical trees (the result of sjson_decode) and subscripting *)

Raise == [kind |-> "raise", val |-> <<>>]

DictVal(f) == [kind |-> "dict", val |-> f]
ListVal(s) == [kind |-> "list", val |-> s]
StrVal(s)  == [kind |-> "str", val |-> s]
NumVal(n)  == [kind |-> "num", val |-> n]

\* data[key], key a str (isStr) or an int; Raise when Python raises KeyError,
\* IndexError or TypeError. Subscripting a str by an int yields one character.
GetItem(data, key, isStr) ==
    CASE data.kind = "dict" ->
            IF isStr /\ key \in DOMAIN data.val THEN data.val[key] ELSE Raise
      [] data.kind = "list" ->
            IF ~isStr /\ key < Len(data.val) THEN At(data.val, key) ELSE Raise
      [] data.kind = "str" ->
            IF ~isStr THEN [kind |-> "char", val |-> <<data.val, key>>] ELSE Raise
      [] OTHER -> Raise

\* for stack_entry in stack: data = data[stack_entry[0]]
RECURSIVE Descend(_, _)
Descend(data, stk) ==
    IF stk = <<>> \/ data.kind = "raise" THEN data
    ELSE Descend(GetItem(data, Head(stk).key, Head(stk).in_dict), Tail(stk))

IsNumber(data) == data.kind = "num"

\* set_number_node(node, val)
set_number_node(node, val) ==
    IF (node.data_type = "number" /\ IsNumber(val)) \/ IsNumber(val)
    THEN [node EXCEPT !.value = val.val, !.precision = get_float_precision(val.val)]
    ELSE node

\* every number token taken for changed
NumberChangedAlways(old_data, data) == TRUE

\* the test of line 75
NumberChanged(old_data, data) ==
    \/ ~IsNumber(old_data)
    \/ /\ IsNumber(data)
       /\ to_c_float(old_data.val) # to_c_float(data.val)
       /\ old_data.val # data.val

\* old_data != data for two values of a tree
Differ(old_data, data) == ~(old_data.kind = data.kind /\ old_data.val = data.val)

\* compare_and_set_value: [raised, changed, node]
compare_and_set_value(original_jbeam_file_data, jbeam_file_data, stk, index, isStr, node) ==
    LET old_data == GetItem(Descend(original_jbeam_file_data, stk), index, isStr)
        data     == GetItem(Descend(jbeam_file_data, stk), index, isStr)
    IN  IF old_data.kind = "raise" \/ data.kind = "raise"
        THEN [raised |-> TRUE, changed |-> FALSE, node |-> node]
        ELSE IF node.data_type = "number"
        THEN IF NumberChanged(old_data, data)
             THEN [raised |-> FALSE, changed |-> TRUE, node |-> set_number_node(node, data)]
             ELSE [raised |-> FALSE, changed |-> FALSE, node |-> node]
        ELSE IF Differ(old_data, data)
             THEN [raised |-> FALSE, changed |-> TRUE, node |-> [node EXCEPT !.value = data.val]]
             ELSE [raised |-> FALSE, changed |-> FALSE, node |-> node]

-----------------------------------------------------------------------------
(* add_jbeam_nodes *)

DefaultIndentLvl == 8

\* lines 96-112: the text after the last newline of the nearest separator
\* that holds one, scanning back from the token before the last
RECURSIVE IndentLvl(_, _, _)
IndentLvl(nodes, j, section_start) ==
    IF j <= section_start THEN DefaultIndentLvl
    ELSE LET node_j == At(nodes, j)
         IN  IF node_j.data_type = "wsc" /\ LastIndex(node_j.value, NL) >= 0
             THEN Len(node_j.value) - LastIndex(node_j.value, NL) - 1
             ELSE IndentLvl(nodes, j - 1, section_start)

CommaSpace == <<",", " ">>

\* lines 155-163: the tokens of one new row
NewRow(node_id, node_pos) ==
    << Sym("["), StrTok(node_id), Wsc(CommaSpace), NumTok(node_pos[1]),
       Wsc(CommaSpace), NumTok(node_pos[2]), Wsc(CommaSpace), NumTok(node_pos[3]),
       Sym("]") >>

\* lines 147-170 for rows k..: every row but the first is preceded by a
\* separator holding the indent, every row but the last followed by one
\* holding a comma
RECURSIVE NewRows(_, _, _)
NewRows(adds, k, jbeam_entry_indent) ==
    IF k > Len(adds) THEN <<>>
    ELSE (IF k = 1 THEN <<>> ELSE <<Wsc(jbeam_entry_indent)>>)
         \o NewRow(adds[k][1], adds[k][2])
         \o (IF k < Len(adds) THEN <<Wsc(<<",">>)>> ELSE <<>>)
         \o NewRows(adds, k + 1, jbeam_entry_indent)

\* lines 125-128: the loop variable after the loop
SplitPoint(wscs) ==
    IF FirstIndex(wscs, NL) >= 0 THEN FirstIndex(wscs, NL) ELSE Len(wscs) - 1

\* lines 120-134 and 148-149: the separator after the last entry keeps what
\* precedes its first newline and receives the indent of the first new row
InlineSeparator(nodes, k, adds, jbeam_entry_indent) ==
    LET node_after_entry == At(nodes, k)
        tail == IF adds = <<>> THEN <<>> ELSE jbeam_entry_indent
    IN  IF node_after_entry.data_type = "wsc"
        THEN SetAt(nodes, k, [node_after_entry EXCEPT !.value =
                                 Slice(node_after_entry.value, 0,
                                       SplitPoint(node_after_entry.value)) \o tail])
        ELSE InsertAll(nodes, k, <<Wsc(tail)>>)

\* line 131: node_2_after_entry, as a list of no or one token
SecondSeparator(node_after_entry) ==
    IF node_after_entry.data_type = "wsc" /\ FirstIndex(node_after_entry.value, NL) >= 0
    THEN <<Wsc(SliceFrom(node_after_entry.value, SplitPoint(node_after_entry.value)))>>
    ELSE <<>>

\* lines 143-179
InsertRows(nodes, k, rows, node_2_after_entry) ==
    [raised |-> FALSE,
     nodes  |-> InsertAll(nodes, k, rows \o node_2_after_entry),
     i      |-> k + Len(rows) + 1]

\* add_jbeam_nodes: [raised, nodes, i]
add_jbeam_nodes(nodes, section_start, section_end, entry_start, entry_end, adds) ==
    IF section_start < 0 \/ entry_end < 0 \/ entry_end + 1 >= Len(nodes)
    THEN [raised |-> TRUE, nodes |-> nodes, i |-> section_end]
    ELSE IF At(nodes, entry_end + 1).data_type = "wsc" /\ At(nodes, entry_end + 1).value = <<>>
    THEN [raised |-> TRUE, nodes |-> nodes, i |-> section_end]
    ELSE LET jbeam_entry_indent ==
                 <<NL>> \o Repeat(" ", IndentLvl(nodes, section_end - 2, section_start))
         IN  InsertRows(InlineSeparator(nodes, entry_end + 1, adds, jbeam_entry_indent),
                        entry_end + 2,
                        NewRows(adds, 1, jbeam_entry_indent),
                        SecondSeparator(At(nodes, entry_end + 1)))

-----------------------------------------------------------------------------
(* delete_jbeam_node *)

HasNewline(node) == node.data_type = "wsc" /\ FirstIndex(node.value, NL) >= 0

\* the cut always taken at the newline
RightCutThrough(wscs, node_entry_to_left) ==
    IF FirstIndex(wscs, NL) >= 0 THEN FirstIndex(wscs, NL) ELSE Len(wscs) - 1

\* lines 199-203: the loop variable after the loop
RightCut(wscs, node_entry_to_left) ==
    IF FirstIndex(wscs, NL) >= 0
    THEN (IF node_entry_to_left THEN FirstIndex(wscs, NL) - 1 ELSE FirstIndex(wscs, NL))
    ELSE Len(wscs) - 1

\* line 205
DeletesRight(node_entry_next_node, node_entry_to_left) ==
    /\ node_entry_next_node.data_type = "wsc"
    /\ RightCut(node_entry_next_node.value, node_entry_to_left)
          = Len(node_entry_next_node.value) - 1

\* lines 193-209
TrimRight(nodes, entry_end, node_entry_to_left) ==
    LET node_entry_next_node == At(nodes, entry_end + 1)
    IN  IF node_entry_next_node.data_type # "wsc" THEN nodes
        ELSE IF DeletesRight(node_entry_next_node, node_entry_to_left)
        THEN DelRange(nodes, entry_end + 1, entry_end + 2)
        ELSE SetAt(nodes, entry_end + 1,
                   [node_entry_next_node EXCEPT !.value =
                       SliceFrom(node_entry_next_node.value,
                                 RightCut(node_entry_next_node.value, node_entry_to_left) + 1)])

\* the separator before the row left as it is
TrimLeftNever(nodes, entry_start, alone) == nodes

\* lines 211-220
TrimLeft(nodes, entry_start, alone) ==
    LET node_entry_prev_node == At(nodes, entry_start - 1)
    IN  IF alone
        THEN SetAt(nodes, entry_start - 1,
                   [node_entry_prev_node EXCEPT !.value =
                       Slice(node_entry_prev_node.value, 0,
                             LastIndex(node_entry_prev_node.value, NL) + 1)])
        ELSE nodes

\* lines 228-242
MergeSeparators(nodes, k) ==
    IF k < 0 \/ k + 1 >= Len(nodes)
    THEN [raised |-> TRUE, nodes |-> nodes, i |-> k]
    ELSE IF At(nodes, k).data_type = "wsc" /\ At(nodes, k + 1).data_type = "wsc"
    THEN [raised |-> FALSE,
          nodes  |-> DelRange(SetAt(nodes, k + 1,
                                    [At(nodes, k + 1) EXCEPT !.value =
                                        At(nodes, k).value \o At(nodes, k + 1).value]),
                              k, k + 1),
          i      |-> k - 1]
    ELSE [raised |-> FALSE, nodes |-> nodes, i |-> k]

\* delete_jbeam_node: [raised, nodes, i]
delete_jbeam_node(nodes, section_start, entry_start, entry_end) ==
    IF entry_start < 1 \/ entry_end < 0 \/ entry_end + 1 >= Len(nodes)
    THEN [raised |-> TRUE, nodes |-> nodes, i |-> entry_end]
    ELSE IF At(nodes, entry_end + 1).data_type = "wsc" /\ At(nodes, entry_end + 1).value = <<>>
    THEN [raised |-> TRUE, nodes |-> nodes, i |-> entry_end]
    ELSE LET node_entry_to_left  == ~HasNewline(At(nodes, entry_start - 1))
             node_entry_to_right == ~HasNewline(At(nodes, entry_end + 1))
             deleted_right_wsc   == DeletesRight(At(nodes, entry_end + 1), node_entry_to_left)
         IN  MergeSeparators(
                 \* line 223
                 DelRange(TrimLeft(TrimRight(nodes, entry_end, node_entry_to_left),
                                   entry_start,
                                   ~node_entry_to_left /\ ~node_entry_to_right),
                          entry_start, entry_end + 1),
                 \* lines 224-226
                 IF deleted_right_wsc THEN entry_start - 2 ELSE entry_start - 1)

-----------------------------------------------------------------------------
(* update_ast_nodes: one iteration of the scan loop *)

None == <<>>
NoneVal == [kind |-> "none", val |-> <<>>]

\* stack[k][0] == name, for a frame pushed with a dict key
FrameIs(stk, k, name) == At(stk, k).in_dict /\ At(stk, k).key = name

InPart(stk)      == FrameIs(stk, 0, jbeam_part)
InPartNodes(stk) == FrameIs(stk, 0, jbeam_part) /\ FrameIs(stk, 1, "nodes")

Frame(key, was_in_dict) == [key |-> key, in_dict |-> was_in_dict]

\* What lines 397-455 leave behind for the token at i
Locals(raised, nodes, stk, ind, pos, tkey, dkey, nid) ==
    [raised |-> raised, ast_nodes |-> nodes, stack |-> stk, in_dict |-> ind,
     pos_in_arr |-> pos, temp_dict_key |-> tkey, dict_key |-> dkey,
     jbeam_node_id |-> nid]

Same == Locals(FALSE, ast_nodes, stack, in_dict, pos_in_arr, temp_dict_key,
               dict_key, jbeam_node_id)

\* lines 397-427
InDictToken(node) ==
    IF IsOpen(node)
    THEN IF dict_key # None
         THEN [Same EXCEPT !.stack = Append(stack, Frame(dict_key[1], in_dict)),
                           !.in_dict = (node.data_type = "{"),
                           !.pos_in_arr = 0, !.temp_dict_key = None, !.dict_key = None]
         ELSE [Same EXCEPT !.pos_in_arr = 0, !.temp_dict_key = None, !.dict_key = None]
    ELSE IF IsClose(node) THEN Same
    ELSE IF temp_dict_key = None
         THEN IF node.data_type = StrT
              THEN [Same EXCEPT !.temp_dict_key = <<node.value>>]
              ELSE Same
    ELSE IF node.data_type = ":"
         THEN [Same EXCEPT !.dict_key = temp_dict_key]
    ELSE IF dict_key # None
         THEN LET r == compare_and_set_value(current_jbeam_file_data,
                           current_jbeam_file_data_modified, stack, dict_key[1], TRUE, node)
              IN  [Same EXCEPT !.raised = r.raised,
                               !.ast_nodes = SetAt(ast_nodes, i, r.node),
                               !.temp_dict_key = None, !.dict_key = None]
    ELSE Same

\* lines 429-455
InArrayToken(node) ==
    IF IsOpen(node)
    THEN [Same EXCEPT !.stack = Append(stack, Frame(pos_in_arr, in_dict)),
                      !.in_dict = (node.data_type = "{"),
                      !.pos_in_arr = 0, !.temp_dict_key = None, !.dict_key = None]
    ELSE IF IsClose(node) THEN Same
    ELSE LET readsId == /\ Len(stack) = 3 /\ InPartNodes(stack)
                        /\ jbeam_entry_start_node_idx # -1 /\ pos_in_arr = 0
             data    == GetItem(Descend(current_jbeam_file_data_modified, stack),
                                pos_in_arr, FALSE)
             r       == compare_and_set_value(current_jbeam_file_data,
                            current_jbeam_file_data_modified, stack, pos_in_arr, FALSE, node)
         IN  [Same EXCEPT !.raised = r.raised \/ (readsId /\ data.kind = "raise"),
                          !.ast_nodes = SetAt(ast_nodes, i, r.node),
                          !.jbeam_node_id = IF readsId THEN data ELSE jbeam_node_id,
                          !.pos_in_arr = pos_in_arr + 1]

\* the id looked up in the wrong map
IdInAdds(nid) == nid.kind = "str" /\ DictHas(nodes_to_add, nid.val)

\* jbeam_node_id in nodes_to_delete
IdInDeletes(nid) == nid.kind = "str" /\ DictHas(nodes_to_delete, nid.val)

constVars == <<current_jbeam_file_data, current_jbeam_file_data_modified, jbeam_part,
               nodes_to_add, nodes_to_delete, ast_input, pass, reconVars, exportVars,
               schemaVars>>

\* lines 393-395
SkipSeparator ==
    /\ pc = "scan" /\ i < Len(ast_nodes)
    /\ At(ast_nodes, i).data_type = "wsc"
    /\ i' = i + 1
    /\ UNCHANGED <<ast_nodes, stack, in_dict, pos_in_arr, temp_dict_key, dict_key,
                   jbeam_entry_start_node_idx, jbeam_entry_end_node_idx,
                   jbeam_section_start_node_idx, jbeam_section_end_node_idx,
                   jbeam_node_id, pc, constVars>>

\* lines 397-464 and 492, given what lines 397-455 left
TokenStep(node, a) ==
    /\ pc' = IF a.raised THEN "raised" ELSE "scan"
    /\ ast_nodes' = IF a.raised THEN ast_nodes ELSE a.ast_nodes
    /\ stack' = a.stack
    /\ in_dict' = a.in_dict
    /\ pos_in_arr' = a.pos_in_arr
    /\ temp_dict_key' = a.temp_dict_key
    /\ dict_key' = a.dict_key
    /\ jbeam_node_id' = a.jbeam_node_id
    \* lines 457-464
    /\ jbeam_section_start_node_idx' =
          IF IsOpen(node) /\ Len(a.stack) = 2 /\ InPart(a.stack)
          THEN i ELSE jbeam_section_start_node_idx
    /\ jbeam_entry_start_node_idx' =
          IF IsOpen(node) /\ Len(a.stack) = 3 /\ InPart(a.stack)
          THEN i ELSE jbeam_entry_start_node_idx
    /\ i' = IF a.raised THEN i ELSE i + 1

\* one iteration for an opening token or a scalar
ScanToken ==
    /\ pc = "scan" /\ i < Len(ast_nodes)
    /\ At(ast_nodes, i).data_type # "wsc" /\ ~IsClose(At(ast_nodes, i))
    /\ \E a \in {IF in_dict THEN InDictToken(At(ast_nodes, i))
                   ELSE InArrayToken(At(ast_nodes, i))} :
          TokenStep(At(ast_nodes, i), a)
    /\ UNCHANGED <<jbeam_entry_end_node_idx, jbeam_section_end_node_idx, constVars>>

\* lines 467-468
EntryEnd ==
    IF Len(stack) = 3 /\ InPart(stack) THEN i ELSE jbeam_entry_end_node_idx

\* line 471
AtSectionEnd(node) ==
    /\ node.data_type = "]"
    /\ Len(stack) = 2 /\ InPartNodes(stack)
    /\ nodes_to_add # <<>>

\* lines 470-475: [raised, nodes, i]
Added(node) ==
    IF AtSectionEnd(node)
    THEN add_jbeam_nodes(ast_nodes, jbeam_section_start_node_idx, i,
                         jbeam_entry_start_node_idx, EntryEnd, nodes_to_add)
    ELSE [raised |-> FALSE, nodes |-> ast_nodes, i |-> i]

\* lines 477-479: [stack, in_dict, pos_in_arr]
PopFrame(stk) ==
    IF stk = <<>>
    THEN [stack |-> <<>>, in_dict |-> TRUE, pos_in_arr |-> 0]
    ELSE [stack      |-> Slice(stk, 0, Len(stk) - 1),
          in_dict    |-> At(stk, Len(stk) - 1).in_dict,
          pos_in_arr |-> IF Len(stk) > 1 /\ ~At(stk, Len(stk) - 1).in_dict
                         THEN At(stk, Len(stk) - 1).key + 1 ELSE 0]

\* lines 481-482, with the stack as popped
AtEntryEnd(node, stk) ==
    /\ node.data_type = "]"
    /\ Len(stk) = 2 /\ InPartNodes(stk)

\* lines 481-487: [raised, nodes, i]
Deleted(node, added, stk) ==
    IF AtEntryEnd(node, stk) /\ ~added.raised /\ IdInDeletes(jbeam_node_id)
    THEN delete_jbeam_node(added.nodes, jbeam_section_start_node_idx,
                           jbeam_entry_start_node_idx, EntryEnd)
    ELSE added

\* lines 466-492, given the frame popped and what insertion and deletion left
CloseStep(node, popped, r) ==
    /\ pc' = IF r.raised THEN "raised" ELSE "scan"
    /\ ast_nodes' = r.nodes
    /\ i' = IF r.raised THEN i ELSE r.i + 1
    /\ stack' = popped.stack
    /\ in_dict' = popped.in_dict
    /\ pos_in_arr' = popped.pos_in_arr
    /\ jbeam_entry_end_node_idx' = EntryEnd
    /\ jbeam_section_end_node_idx' =
          IF AtSectionEnd(node) THEN i ELSE jbeam_section_end_node_idx
    /\ jbeam_entry_start_node_idx' =
          IF AtEntryEnd(node, popped.stack) THEN -1 ELSE jbeam_entry_start_node_idx
    /\ jbeam_node_id' =
          IF AtEntryEnd(node, popped.stack) THEN NoneVal ELSE jbeam_node_id

\* one iteration for a closing token (lines 397-455 leave it alone)
ScanClose ==
    /\ pc = "scan" /\ i < Len(ast_nodes)
    /\ IsClose(At(ast_nodes, i))
    /\ \E popped \in {PopFrame(stack)} :
       \E r \in {Deleted(At(ast_nodes, i), Added(At(ast_nodes, i)), popped.stack)} :
          CloseStep(At(ast_nodes, i), popped, r)
    /\ UNCHANGED <<temp_dict_key, dict_key, jbeam_section_start_node_idx, constVars>>

\* line 391: the loop ends
Return ==
    /\ pc = "scan" /\ i >= Len(ast_nodes)
    /\ pc' = "done"
    /\ UNCHANGED <<ast_nodes, i, stack, in_dict, pos_in_arr, temp_dict_key, dict_key,
                   jbeam_entry_start_node_idx, jbeam_entry_end_node_idx,
                   jbeam_section_start_node_idx, jbeam_section_end_node_idx,
                   jbeam_node_id, constVars>>


-----------------------------------------------------------------------------
(* The tokenizer's side of the contract: sjson_decode of a token list *)

RECURSIVE SkipWsc(_, _)
SkipWsc(t, k) ==
    IF k < Len(t) /\ At(t, k).data_type = "wsc" THEN SkipWsc(t, k + 1) ELSE k

RECURSIVE ParseValue(_, _), ParseList(_, _, _), ParseDict(_, _, _)
ParseValue(t, k) ==
    LET node == At(t, k)
    IN  CASE node.data_type = "{" -> ParseDict(t, k + 1, <<>>)
          [] node.data_type = "[" -> ParseList(t, k + 1, <<>>)
          [] node.data_type = "number" -> [val |-> NumVal(node.value), next |-> k + 1]
          [] OTHER -> [val |-> StrVal(node.value), next |-> k + 1]

ParseList(t, k, acc) ==
    LET k0 == SkipWsc(t, k)
    IN  IF At(t, k0).data_type = "]"
        THEN [val |-> ListVal(acc), next |-> k0 + 1]
        ELSE LET r == ParseValue(t, k0)
             IN  ParseList(t, r.next, Append(acc, r.val))

ParseDict(t, k, acc) ==
    LET k0 == SkipWsc(t, k)
    IN  IF At(t, k0).data_type = "}"
        THEN [val |-> DictVal(acc), next |-> k0 + 1]
        ELSE LET colon == SkipWsc(t, k0 + 1)
                 r     == ParseValue(t, SkipWsc(t, colon + 1))
             IN  ParseDict(t, r.next, (At(t, k0).value :> r.val) @@ acc)

sjson_decode(t) == ParseValue(t, SkipWsc(t, 0)).val

-----------------------------------------------------------------------------
(* The files the runs start from *)

MaxRows == 2        \* rows of the target part's node table, after the header
MaxAdds == 2        \* entries of nodes_to_add

PartName  == "P"
OtherPart == "Q"

\* separators found between two rows
GapNone   == <<>>                           \* the rows touch
GapInline == <<",", " ">>                   \* the rows share a line
GapLine   == <<",", NL, " ", " ">>          \* one row per line
Gaps == {GapNone, GapInline, GapLine}

GapTok(g) == IF g = <<>> THEN <<>> ELSE <<Wsc(g)>>

RowIds == <<"a", "b", "c", "d", "e">>
AddIds == <<"n1", "n2", "n3", "n4">>

\* the second row's x is no C float
RowPos(k) == <<(k - 1) * One + (IF k % 2 = 0 THEN 5 ELSE 0), 0, One \div 2>>
AddPos(k) == <<k * One, One \div 4, 0>>

HeaderToks ==
    << Sym("["), StrTok("id"), Wsc(CommaSpace), StrTok("posX"), Wsc(CommaSpace),
       StrTok("posY"), Wsc(CommaSpace), StrTok("posZ"), Sym("]") >>

\* a row as written: 0.0 and 0.50 carry the decimals they were written with
FileRow(id, pos) ==
    << Sym("["), StrTok(id), Wsc(CommaSpace), NumTok(pos[1]),
       Wsc(CommaSpace), ASTNode("number", pos[2], 1),
       Wsc(CommaSpace), ASTNode("number", pos[3], 2), Sym("]") >>

RECURSIVE RowsToks(_, _)
RowsToks(gaps, k) ==
    IF k >= Len(gaps) THEN <<>>
    ELSE GapTok(gaps[k]) \o FileRow(RowIds[k], RowPos(k)) \o RowsToks(gaps, k + 1)

SlotToks == << StrTok("slotType"), Sym(":"), StrTok("main") >>

Numbered(toks) == [k \in 1..Len(toks) |-> [toks[k] EXCEPT !.src = k - 1]]

\* gaps[k] precedes row k, the last gap precedes the closing bracket; slotType
\* follows the node table (slotLast) or precedes it
FileToks(gaps, slotLast) ==
    Numbered(
        << Sym("{"), StrTok(PartName), Sym(":"), Sym("{") >>
        \o (IF slotLast THEN <<>> ELSE SlotToks \o <<Wsc(GapLine)>>)
        \o << StrTok("nodes"), Sym(":"), Sym("[") >>
        \o HeaderToks \o RowsToks(gaps, 1) \o GapTok(gaps[Len(gaps)])
        \o << Sym("]") >>
        \o (IF slotLast THEN <<Wsc(GapLine)>> \o SlotToks ELSE <<>>)
        \o << Sym("}"), Wsc(<<",", NL>>),
              StrTok(OtherPart), Sym(":"), Sym("{"), StrTok("nodes"), Sym(":"), Sym("[") >>
        \o HeaderToks \o <<Wsc(CommaSpace)>> \o FileRow(RowIds[1], RowPos(1))
        \o << Sym("]"), Sym("}"), Wsc(<<NL>>), Sym("}") >>)

\* the separators of a table of n rows: one before the first row, one kind
\* between two rows, one before the closing bracket
GapsOf(first, between, last, n) ==
    [k \in 1..(n + 1) |-> IF k = n + 1 THEN last ELSE IF k = 1 THEN first ELSE between]

GapSeqs ==
    {GapsOf(first, between, last, n) :
        first \in Gaps, between \in Gaps, last \in Gaps, n \in 0..MaxRows}

RowTree(id, pos) == ListVal(<<StrVal(id), NumVal(pos[1]), NumVal(pos[2]), NumVal(pos[3])>>)

HeaderTree == ListVal(<<StrVal("id"), StrVal("posX"), StrVal("posY"), StrVal("posZ")>>)

NodesTree(rows) == ListVal(<<HeaderTree>> \o rows)

\* the logical tree of FileToks(gaps, slotLast) for a table of n rows
FileTree(n) ==
    DictVal((PartName :> DictVal(("slotType" :> StrVal("main"))
                                 @@ ("nodes" :> NodesTree([k \in 1..n |-> RowTree(RowIds[k], RowPos(k))]))))
            @@ (OtherPart :> DictVal("nodes" :> NodesTree(<<RowTree(RowIds[1], RowPos(1))>>))))

\* nodes_to_add: the first n new nodes
RECURSIVE AddDict(_)
AddDict(n) == IF n = 0 THEN <<>> ELSE Append(AddDict(n - 1), <<AddIds[n], AddPos(n)>>)

\* nodes_to_delete: the rows of ks, in table order
RECURSIVE DeleteDict(_, _, _)
DeleteDict(ks, k, n) ==
    IF k > n THEN <<>>
    ELSE (IF k \in ks THEN <<<<RowIds[k], RowPos(k)>>>> ELSE <<>>) \o DeleteDict(ks, k + 1, n)

\* tree with the rows of part's node table replaced by rows
WithRows(tree, part, rows) ==
    DictVal([tree.val EXCEPT ![part] =
        DictVal([@.val EXCEPT !["nodes"] = ListVal(rows)])])

\* the row as the mesh has it: every coordinate a C float
Synced(row) ==
    ListVal([c \in 1..Len(row.val) |->
                IF c > 1 /\ row.val[c].kind = "num"
                THEN NumVal(to_c_float(row.val[c].val)) ELSE row.val[c]])

\* the row renamed and moved
Edited(row) ==
    ListVal(<<StrVal("r2"), NumVal(row.val[2].val + One), row.val[3], row.val[4]>>)

Retyped(tree, part) ==
    DictVal([tree.val EXCEPT ![part] =
        DictVal([@.val EXCEPT !["slotType"] = StrVal("aux")])])

Edits == {"same", "sync", "edit"}

\* the after-tree: the rows the mesh still has carry the mesh's values; an
\* edit renames and moves the first of them and changes slotType
AfterTree(tree, part, kept, edit) ==
    LET first == IF kept = {} THEN 0 ELSE CHOOSE k \in kept : \A m \in kept : k <= m
        rows  == tree.val[part].val["nodes"].val
        after == [k \in 1..Len(rows) |->
                    IF (k - 1) \notin kept THEN rows[k]
                    ELSE IF edit = "edit" /\ k - 1 = first THEN Edited(Synced(rows[k]))
                    ELSE Synced(rows[k])]
    IN  CASE edit = "same" -> tree
          [] edit = "sync" -> WithRows(tree, part, after)
          [] OTHER         -> Retyped(WithRows(tree, part, after), part)

InitScan(toks, before, after, part, adds, deletes, n) ==
    /\ ast_nodes = toks
    /\ current_jbeam_file_data = before
    /\ current_jbeam_file_data_modified = after
    /\ jbeam_part = part
    /\ nodes_to_add = adds
    /\ nodes_to_delete = deletes
    /\ pass = n
    /\ i = 0 /\ stack = <<>> /\ in_dict = TRUE /\ pos_in_arr = 0
    /\ temp_dict_key = None /\ dict_key = None
    /\ jbeam_entry_start_node_idx = -1 /\ jbeam_entry_end_node_idx = -1
    /\ jbeam_section_start_node_idx = -1 /\ jbeam_section_end_node_idx = -1
    /\ jbeam_node_id = NoneVal
    /\ pc = "scan"

\* no reconciliation under way
ReconIdle ==
    /\ bm = <<>> /\ bm_input = <<>>
    /\ all_nodes = <<>> /\ node_id_to_part_origin = <<>>
    /\ node_renames = <<>> /\ true_node_renames = <<>>
    /\ vert_idx = 0 /\ row_idx = 0

\* no export under way
ExportIdle ==
    /\ disk = <<>> /\ writes = 0 /\ meshes = <<>> /\ parts_changed = {}

\* the table-schema processor has not been called
SchemaIdle ==
    /\ memo = <<>> /\ jbeam_table = <<>> /\ new_dict = <<>> /\ input_options = <<>>
    /\ vehicle = <<>> /\ ret = <<>> /\ calls = <<>> /\ vehicle_input = <<>>

Init ==
    /\ ReconIdle /\ ExportIdle /\ SchemaIdle
    /\ \E gaps \in GapSeqs, slotLast \in BOOLEAN, nAdds \in 0..MaxAdds, edit \in Edits :
       \E ks \in SUBSET (1..(Len(gaps) - 1)) :
        LET toks == FileToks(gaps, slotLast)
            tree == FileTree(Len(gaps) - 1)
            kept == (1..(Len(gaps) - 1)) \ ks
        IN  /\ ast_input = toks
            /\ InitScan(toks, tree, AfterTree(tree, PartName, kept, edit), PartName,
                        AddDict(nAdds), DeleteDict(ks, 1, Len(gaps) - 1), 1)

\* A second patch, after one that only added one node: the tree is re-derived
\* from the patched tokens and the node is deleted again
PatchAgain ==
    /\ pc = "done" /\ pass = 1
    /\ Len(nodes_to_add) = 1 /\ nodes_to_delete = <<>>
    /\ current_jbeam_file_data_modified = current_jbeam_file_data
    /\ current_jbeam_file_data' = sjson_decode(ast_nodes)
    /\ current_jbeam_file_data_modified' = sjson_decode(ast_nodes)
    /\ nodes_to_add' = <<>>
    /\ nodes_to_delete' = nodes_to_add
    /\ pass' = 2
    /\ i' = 0 /\ stack' = <<>> /\ in_dict' = TRUE /\ pos_in_arr' = 0
    /\ temp_dict_key' = None /\ dict_key' = None
    /\ jbeam_entry_start_node_idx' = -1 /\ jbeam_entry_end_node_idx' = -1
    /\ jbeam_section_start_node_idx' = -1 /\ jbeam_section_end_node_idx' = -1
    /\ jbeam_node_id' = NoneVal
    /\ pc' = "scan"
    /\ UNCHANGED <<ast_nodes, ast_input, jbeam_part, reconVars, exportVars, schemaVars>>

Next == SkipSeparator \/ ScanToken \/ ScanClose \/ Return \/ PatchAgain

Spec == Init /\ [][Next]_vars

-----------------------------------------------------------------------------
(* _get_nodes_add_delete_rename *)

\* a vert with its three string layers and its world position
Vert(init_node_id, node_id, node_part_origin, co) ==
    [init_node_id |-> init_node_id, node_id |-> node_id,
     node_part_origin |-> node_part_origin, co |-> co]

\* a key of a dict that may not be there, a value that may be None
Absent == <<>>
Some(x) == <<x>>

\* line 270
pos_tup(co) == <<to_c_float(co[1]), to_c_float(co[2]), to_c_float(co[3])>>

NoNodeEntry == [blender_node |-> Absent, jbeam_node |-> Absent]

NodeEntry(nodes, node_id) ==
    IF DictHas(nodes, node_id) THEN DictGet(nodes, node_id) ELSE NoNodeEntry

\* lines 275-277
WithBlenderNode(nodes, vert) ==
    DictSet(nodes, vert.node_id,
            [NodeEntry(nodes, vert.node_id) EXCEPT !.blender_node =
                Some([init_node_id |-> vert.init_node_id,
                      curr_node_id |-> vert.node_id,
                      pos |-> pos_tup(vert.co)])])

scanLocals == <<ast_nodes, i, stack, in_dict, pos_in_arr, temp_dict_key, dict_key,
                jbeam_entry_start_node_idx, jbeam_entry_end_node_idx,
                jbeam_section_start_node_idx, jbeam_section_end_node_idx,
                jbeam_node_id, ast_input, pass>>

\* what the reconciler only reads
reconFrame == <<scanLocals, current_jbeam_file_data, jbeam_part, bm_input, exportVars,
                schemaVars>>

\* the verts with the layers as they are
WithInitIdKept(verts, k) == verts

\* line 278: the vert's id is written to its init-id layer
WithInitId(verts, k) == [verts EXCEPT ![k + 1].init_node_id = At(verts, k).node_id]

\* lines 258-278: one vert of the loop
ReadVert ==
    /\ pc = "verts" /\ vert_idx < Len(bm)
    /\ vert_idx' = vert_idx + 1
    /\ node_id_to_part_origin' =
          DictSet(node_id_to_part_origin, At(bm, vert_idx).node_id,
                  At(bm, vert_idx).node_part_origin)
    /\ IF At(bm, vert_idx).node_part_origin # jbeam_part
       THEN UNCHANGED <<node_renames, all_nodes, bm>>
       ELSE /\ node_renames' =
                  IF At(bm, vert_idx).init_node_id # At(bm, vert_idx).node_id
                  THEN DictSet(node_renames, At(bm, vert_idx).init_node_id,
                               At(bm, vert_idx).node_id)
                  ELSE node_renames
            /\ all_nodes' = WithBlenderNode(all_nodes, At(bm, vert_idx))
            /\ bm' = WithInitId(bm, vert_idx)
    /\ UNCHANGED <<pc, current_jbeam_file_data_modified, nodes_to_add, nodes_to_delete,
                   true_node_renames, row_idx, reconFrame>>

\* lines 283, 351: the part has a node table
HasNodesSection(tree) ==
    /\ jbeam_part \in DOMAIN tree.val
    /\ tree.val[jbeam_part].kind = "dict"
    /\ "nodes" \in DOMAIN tree.val[jbeam_part].val

nodes_section(tree) == tree.val[jbeam_part].val["nodes"].val

\* line 280: the loop over the verts is over, the tree is copied
CopyTree ==
    /\ pc = "verts" /\ vert_idx >= Len(bm)
    /\ current_jbeam_file_data_modified' = current_jbeam_file_data
    /\ row_idx' = 0
    /\ pc' = IF HasNodesSection(current_jbeam_file_data) THEN "rows" ELSE "classify"
    /\ UNCHANGED <<nodes_to_add, nodes_to_delete, bm, all_nodes, node_id_to_part_origin,
                   node_renames, true_node_renames, vert_idx, reconFrame>>

\* lines 298-301
WithJbeamNode(nodes, row_data) ==
    DictSet(nodes, row_data[1].val,
            [NodeEntry(nodes, row_data[1].val) EXCEPT !.jbeam_node =
                Some([curr_node_id |-> row_data[1].val,
                      pos |-> <<to_c_float(row_data[2].val), to_c_float(row_data[3].val),
                                to_c_float(row_data[4].val)>>])])

\* lines 287-301 for the row at index k: [raised, all_nodes]
RowRead(k, row_data) ==
    IF k = 0 \/ row_data.kind # "list"
    THEN [raised |-> FALSE, all_nodes |-> all_nodes]
    ELSE IF ~DictHas(node_id_to_part_origin, row_data.val[1].val)
    THEN [raised |-> TRUE, all_nodes |-> all_nodes]        \* KeyError, line 295
    ELSE IF jbeam_part # DictGet(node_id_to_part_origin, row_data.val[1].val)
    THEN [raised |-> FALSE, all_nodes |-> all_nodes]
    ELSE [raised |-> FALSE, all_nodes |-> WithJbeamNode(all_nodes, row_data.val)]

RowStep(r) ==
    /\ all_nodes' = r.all_nodes
    /\ pc' = IF r.raised THEN "raised" ELSE "rows"
    /\ row_idx' = row_idx + 1

\* lines 286-301: one row of the loop
ReadRow ==
    /\ pc = "rows" /\ row_idx < Len(nodes_section(current_jbeam_file_data_modified))
    /\ RowStep(RowRead(row_idx, At(nodes_section(current_jbeam_file_data_modified), row_idx)))
    /\ UNCHANGED <<current_jbeam_file_data_modified, nodes_to_add, nodes_to_delete, bm,
                   node_id_to_part_origin, node_renames, true_node_renames, vert_idx,
                   reconFrame>>

IsAddCandidate(e)    == Len(e[2].jbeam_node) = 0 /\ Len(e[2].blender_node) > 0
IsDeleteCandidate(e) == Len(e[2].jbeam_node) > 0 /\ Len(e[2].blender_node) = 0

\* lines 305-313
AddCandidates(nodes) ==
    [k \in 1..Len(SelectSeq(nodes, IsAddCandidate)) |->
        << SelectSeq(nodes, IsAddCandidate)[k][1],
           SelectSeq(nodes, IsAddCandidate)[k][2].blender_node[1].pos >>]

DeleteCandidates(nodes) ==
    [k \in 1..Len(SelectSeq(nodes, IsDeleteCandidate)) |->
        << SelectSeq(nodes, IsDeleteCandidate)[k][1],
           SelectSeq(nodes, IsDeleteCandidate)[k][2].jbeam_node[1].pos >>]

\* lines 305-315: the loop over the rows is over, or there was none
Classify ==
    /\ \/ pc = "classify"
       \/ pc = "rows" /\ row_idx >= Len(nodes_section(current_jbeam_file_data_modified))
    /\ nodes_to_add' = AddCandidates(all_nodes)
    /\ nodes_to_delete' = DeleteCandidates(all_nodes)
    /\ true_node_renames' = <<>>
    /\ pc' = "identity"
    /\ UNCHANGED <<current_jbeam_file_data_modified, bm, all_nodes, node_id_to_part_origin,
                   node_renames, vert_idx, row_idx, reconFrame>>

Renames(adds, deletes, renames, raised) ==
    [nodes_to_add |-> adds, nodes_to_delete |-> deletes,
     true_node_renames |-> renames, raised |-> raised]

\* lines 318-323, from entry k of node_renames on
RECURSIVE IdentityRenames(_, _)
IdentityRenames(k, r) ==
    IF k > Len(node_renames) THEN r
    ELSE IF /\ DictHas(r.nodes_to_delete, node_renames[k][1])
            /\ DictHas(r.nodes_to_add, node_renames[k][2])
    THEN IdentityRenames(k + 1,
            Renames(DictPop(r.nodes_to_add, node_renames[k][2]),
                    DictPop(r.nodes_to_delete, node_renames[k][1]),
                    DictSet(r.true_node_renames, node_renames[k][1], node_renames[k][2]),
                    FALSE))
    ELSE IdentityRenames(k + 1, r)

RenameStep(r, next) ==
    /\ nodes_to_add' = r.nodes_to_add
    /\ nodes_to_delete' = r.nodes_to_delete
    /\ true_node_renames' = r.true_node_renames
    /\ pc' = IF r.raised THEN "raised" ELSE next

\* lines 317-323
RenameByIdentity ==
    /\ pc = "identity"
    /\ RenameStep(IdentityRenames(1, Renames(nodes_to_add, nodes_to_delete,
                                             true_node_renames, FALSE)),
                  "position")
    /\ UNCHANGED <<current_jbeam_file_data_modified, bm, all_nodes, node_id_to_part_origin,
                   node_renames, vert_idx, row_idx, reconFrame>>

\* lines 326-332 and 334-340: position -> id, None for a position met twice
RECURSIVE PosToId(_, _, _)
PosToId(d, k, acc) ==
    IF k > Len(d) THEN acc
    ELSE PosToId(d, k + 1,
                 IF DictHas(acc, d[k][2])
                 THEN DictSet(acc, d[k][2], Absent)
                 ELSE Append(acc, <<d[k][2], Some(d[k][1])>>))

\* lines 342-348, from entry k of deleting_nodes_pos_to_id on
RECURSIVE PositionRenames(_, _, _, _)
PositionRenames(deleting_nodes_pos_to_id, adding_nodes_pos_to_id, k, r) ==
    IF k > Len(deleting_nodes_pos_to_id) \/ r.raised THEN r
    ELSE IF ~DictHas(adding_nodes_pos_to_id, deleting_nodes_pos_to_id[k][1])
    THEN PositionRenames(deleting_nodes_pos_to_id, adding_nodes_pos_to_id, k + 1, r)
    ELSE IF DictGet(adding_nodes_pos_to_id, deleting_nodes_pos_to_id[k][1]) = Absent
    THEN PositionRenames(deleting_nodes_pos_to_id, adding_nodes_pos_to_id, k + 1, r)
    ELSE IF deleting_nodes_pos_to_id[k][2] = Absent
    THEN [r EXCEPT !.raised = TRUE]                          \* pop(None), line 347
    ELSE PositionRenames(deleting_nodes_pos_to_id, adding_nodes_pos_to_id, k + 1,
            Renames(DictPop(r.nodes_to_add,
                            DictGet(adding_nodes_pos_to_id, deleting_nodes_pos_to_id[k][1])[1]),
                    DictPop(r.nodes_to_delete, deleting_nodes_pos_to_id[k][2][1]),
                    DictSet(r.true_node_renames, deleting_nodes_pos_to_id[k][2][1],
                            DictGet(adding_nodes_pos_to_id, deleting_nodes_pos_to_id[k][1])[1]),
                    FALSE))

\* lines 325-348
RenameByPosition ==
    /\ pc = "position"
    /\ RenameStep(PositionRenames(PosToId(nodes_to_delete, 1, <<>>),
                                  PosToId(nodes_to_add, 1, <<>>), 1,
                                  Renames(nodes_to_add, nodes_to_delete,
                                          true_node_renames, FALSE)),
                  "update")
    /\ UNCHANGED <<current_jbeam_file_data_modified, bm, all_nodes, node_id_to_part_origin,
                   node_renames, vert_idx, row_idx, reconFrame>>

BlenderPos(node_id) == DictGet(all_nodes, node_id).blender_node[1].pos

Moved(row_data, node_id, new_pos) ==
    ListVal(<<StrVal(node_id), NumVal(new_pos[1]), NumVal(new_pos[2]), NumVal(new_pos[3])>>
            \o SubSeq(row_data.val, 5, Len(row_data.val)))

\* lines 355-372 for the row at position k of the table: it raises
RowUpdateRaises(k, row_data) ==
    /\ k > 1 /\ row_data.kind = "list"
    /\ \/ ~DictHas(node_id_to_part_origin, row_data.val[1].val)
       \/ /\ jbeam_part = DictGet(node_id_to_part_origin, row_data.val[1].val)
          /\ IF DictHas(true_node_renames, row_data.val[1].val)
             THEN \/ ~DictHas(all_nodes, DictGet(true_node_renames, row_data.val[1].val))
                  \/ NodeEntry(all_nodes, DictGet(true_node_renames, row_data.val[1].val)).blender_node
                        = Absent
             ELSE ~DictHas(all_nodes, row_data.val[1].val)

\* lines 355-372 for the row at position k of the table: the row as left
RowUpdated(k, row_data) ==
    IF k = 1 \/ row_data.kind # "list" THEN row_data
    ELSE IF jbeam_part # DictGet(node_id_to_part_origin, row_data.val[1].val) THEN row_data
    ELSE IF DictHas(true_node_renames, row_data.val[1].val)
    THEN Moved(row_data, DictGet(true_node_renames, row_data.val[1].val),
               BlenderPos(DictGet(true_node_renames, row_data.val[1].val)))
    ELSE IF DictGet(all_nodes, row_data.val[1].val).blender_node # Absent
    THEN Moved(row_data, row_data.val[1].val, BlenderPos(row_data.val[1].val))
    ELSE row_data

UpdateRaises(tree) ==
    /\ HasNodesSection(tree)
    /\ \E k \in 1..Len(nodes_section(tree)) : RowUpdateRaises(k, nodes_section(tree)[k])

\* lines 350-374
UpdateTree ==
    /\ pc = "update"
    /\ IF UpdateRaises(current_jbeam_file_data_modified)
       THEN pc' = "raised" /\ UNCHANGED current_jbeam_file_data_modified
       ELSE /\ pc' = "returned"
            /\ current_jbeam_file_data_modified' =
                  IF HasNodesSection(current_jbeam_file_data_modified)
                  THEN WithRows(current_jbeam_file_data_modified, jbeam_part,
                           [k \in 1..Len(nodes_section(current_jbeam_file_data_modified)) |->
                               RowUpdated(k, nodes_section(current_jbeam_file_data_modified)[k])])
                  ELSE current_jbeam_file_data_modified
    /\ UNCHANGED <<nodes_to_add, nodes_to_delete, bm, all_nodes, node_id_to_part_origin,
                   node_renames, true_node_renames, vert_idx, row_idx, reconFrame>>

\* _get_nodes_add_delete_rename is entered with mesh verts for part
CallReconciler(verts, tree, part) ==
    /\ bm = verts /\ bm_input = verts
    /\ current_jbeam_file_data = tree
    /\ current_jbeam_file_data_modified = tree
    /\ jbeam_part = part
    /\ all_nodes = <<>> /\ node_id_to_part_origin = <<>> /\ node_renames = <<>>
    /\ true_node_renames = <<>> /\ nodes_to_add = <<>> /\ nodes_to_delete = <<>>
    /\ vert_idx = 0 /\ row_idx = 0
    /\ pc = "verts"

\* no patch under way
ScanIdle ==
    /\ ast_nodes = <<>> /\ ast_input = <<>> /\ pass = 1
    /\ i = 0 /\ stack = <<>> /\ in_dict = TRUE /\ pos_in_arr = 0
    /\ temp_dict_key = None /\ dict_key = None
    /\ jbeam_entry_start_node_idx = -1 /\ jbeam_entry_end_node_idx = -1
    /\ jbeam_section_start_node_idx = -1 /\ jbeam_section_end_node_idx = -1
    /\ jbeam_node_id = NoneVal

MaxVerts == 2       \* verts of the mesh

\* a node as the file has it, one moved to no C float, one of another part
MovedCo == <<One + 3, One \div 4, 0>>

\* init id and id: the file's first two nodes, a new node, the first renamed
IdPairs == { <<RowIds[1], RowIds[1]>>, <<RowIds[2], RowIds[2]>>,
             <<AddIds[1], AddIds[1]>>, <<RowIds[1], AddIds[1]>> }

VertChoices ==
    { Vert(p[1], p[2], PartName, co) : p \in IdPairs, co \in {RowPos(1), MovedCo} }
    \cup { Vert(p[1], p[2], OtherPart, RowPos(1)) : p \in IdPairs }

Meshes == UNION {[1..n -> VertChoices] : n \in 0..MaxVerts}

\* a file whose n nodes all sit where the first is
StackedTree(n) ==
    WithRows(FileTree(n), PartName,
             <<HeaderTree>> \o [k \in 1..n |-> RowTree(RowIds[k], RowPos(1))])

DiskTrees == {FileTree(n) : n \in 0..MaxRows} \cup {StackedTree(n) : n \in 2..MaxRows}

InitReconcile ==
    /\ ScanIdle /\ ExportIdle /\ SchemaIdle
    /\ \E verts \in Meshes, tree \in DiskTrees :
          CallReconciler(verts, tree, PartName)

NextReconcile ==
    \/ ReadVert \/ CopyTree \/ ReadRow \/ Classify
    \/ RenameByIdentity \/ RenameByPosition \/ UpdateTree

SpecReconcile == InitReconcile /\ [][NextReconcile]_vars

-----------------------------------------------------------------------------
(* _get_nodes_add_delete_rename: the claims *)

\* the ids of the rows of the part's node table in the before-tree
DiskRows ==
    IF HasNodesSection(current_jbeam_file_data)
    THEN SelectSeq(Tail(nodes_section(current_jbeam_file_data)), LAMBDA row : row.kind = "list")
    ELSE <<>>

DiskIds == {DiskRows[k].val[1].val : k \in 1..Len(DiskRows)}

DiskPos(node_id) ==
    LET row == DiskRows[CHOOSE k \in 1..Len(DiskRows) : DiskRows[k].val[1].val = node_id]
    IN  <<to_c_float(row.val[2].val), to_c_float(row.val[3].val), to_c_float(row.val[4].val)>>

\* the verts of the mesh as passed in that the part owns
OwnedVerts == SelectSeq(bm_input, LAMBDA vert : vert.node_part_origin = jbeam_part)

OwnedIds == {OwnedVerts[k].node_id : k \in 1..Len(OwnedVerts)}

LiveIds == {bm_input[k].node_id : k \in 1..Len(bm_input)}

\* the position of the last vert of the part with the id
LivePos(node_id) ==
    pos_tup(OwnedVerts[CHOOSE k \in 1..Len(OwnedVerts) :
                          /\ OwnedVerts[k].node_id = node_id
                          /\ \A m \in (k + 1)..Len(OwnedVerts) : OwnedVerts[m].node_id # node_id].co)

RenameSources == {true_node_renames[k][1] : k \in 1..Len(true_node_renames)}
RenameTargets == {true_node_renames[k][2] : k \in 1..Len(true_node_renames)}

IsAdded(node_id) ==
    DictHas(nodes_to_add, node_id) /\ DictGet(nodes_to_add, node_id) = LivePos(node_id)

IsDeleted(node_id) ==
    DictHas(nodes_to_delete, node_id) /\ DictGet(nodes_to_delete, node_id) = DiskPos(node_id)

\* what the reconciler returns is what C9 says
CandidatesOk ==
    /\ \A node_id \in (OwnedIds \ DiskIds) \ RenameTargets : IsAdded(node_id)
    /\ \A node_id \in (DiskIds \ LiveIds) \ RenameSources : IsDeleted(node_id)

\* C9: _get_nodes_add_delete_rename returns normally; every id of a vert of
\* the part with no row in the part's node table on disk is in nodes_to_add
\* with the vert's position unless it is the target of a rename, and every id
\* with a row on disk that no vert has is in nodes_to_delete with the row's
\* position unless it is the source of a rename.
C9_Candidates ==
    /\ pc # "raised"
    /\ pc = "returned" => CandidatesOk

\* the reconciler has run on a table with a row whose id no vert has
C9_Reached ==
    /\ pc \in {"returned", "raised"}
    /\ DiskIds \ LiveIds # {}

\* a vert of the part, renamed from an id that has a row on disk and that no
\* vert has to an id that has no row on disk
IsRenamed(vert) ==
    /\ vert.node_part_origin = jbeam_part
    /\ vert.init_node_id # vert.node_id
    /\ vert.init_node_id \in DiskIds \ LiveIds
    /\ vert.node_id \notin DiskIds

RenameReported(vert) ==
    /\ DictHas(true_node_renames, vert.init_node_id)
    /\ DictGet(true_node_renames, vert.init_node_id) = vert.node_id
    /\ ~DictHas(nodes_to_delete, vert.init_node_id)
    /\ ~DictHas(nodes_to_add, vert.node_id)

\* C10: when a vert of the part has original id a1 and id a2, a1 has a row on
\* disk and is no vert's id, and a2 has no row on disk, the reconciler returns
\* with a1 -> a2 in the renames, a1 not in nodes_to_delete, a2 not in nodes_to_add.
C10_IdentityRename ==
    \A k \in 1..Len(bm_input) :
        IsRenamed(bm_input[k]) =>
            /\ pc # "raised"
            /\ pc = "returned" => RenameReported(bm_input[k])

\* the reconciler has run on a mesh with such a vert
C10_Reached ==
    /\ pc \in {"returned", "raised"}
    /\ \E k \in 1..Len(bm_input) : IsRenamed(bm_input[k])

\* the candidates the identity renames leave: ids with a row on disk that no
\* vert has, ids of verts of the part with no row on disk
DeleteCandidateIds ==
    (DiskIds \ LiveIds) \ {bm_input[k].init_node_id : k \in {m \in 1..Len(bm_input) : IsRenamed(bm_input[m])}}

AddCandidateIds ==
    (OwnedIds \ DiskIds) \ {bm_input[k].node_id : k \in {m \in 1..Len(bm_input) : IsRenamed(bm_input[m])}}

DeletesAt(pos) == {d \in DeleteCandidateIds : DiskPos(d) = pos}
AddsAt(pos)    == {a \in AddCandidateIds : LivePos(a) = pos}

CandidatePositions ==
    {DiskPos(d) : d \in DeleteCandidateIds} \cup {LivePos(a) : a \in AddCandidateIds}

\* one delete candidate and one add candidate, and no other, at one position
MatchedByPosition(d, a) ==
    /\ d \in DeleteCandidateIds /\ a \in AddCandidateIds
    /\ DiskPos(d) = LivePos(a)
    /\ DeletesAt(DiskPos(d)) = {d} /\ AddsAt(DiskPos(d)) = {a}

\* C11: when, after the identity renames, one delete candidate and one add
\* candidate, and no other candidate, have the same position triple, the
\* reconciler returns with the rename from the one to the other recorded and
\* neither id left in nodes_to_delete or nodes_to_add.
C11_PositionRename ==
    \A d \in DiskIds, a \in OwnedIds :
        MatchedByPosition(d, a) =>
            /\ pc # "raised"
            /\ pc = "returned" =>
                  /\ DictHas(true_node_renames, d) /\ DictGet(true_node_renames, d) = a
                  /\ ~DictHas(nodes_to_delete, d) /\ ~DictHas(nodes_to_add, a)

\* the reconciler has run on such a pair
C11_Reached ==
    /\ pc \in {"returned", "raised"}
    /\ \E d \in DiskIds, a \in OwnedIds : MatchedByPosition(d, a)

\* more than one delete candidate or more than one add candidate at pos
Ambiguous(pos) == Cardinality(DeletesAt(pos)) > 1 \/ Cardinality(AddsAt(pos)) > 1

\* C12: when a position is shared by more than one delete candidate or more
\* than one add candidate, the reconciler returns normally, no candidate at
\* that position is in a rename, and each of them is in nodes_to_delete or
\* nodes_to_add.
C12_Ambiguity ==
    \A pos \in CandidatePositions :
        Ambiguous(pos) =>
            /\ pc # "raised"
            /\ pc = "returned" =>
                  /\ \A d \in DeletesAt(pos) : IsDeleted(d) /\ d \notin RenameSources
                  /\ \A a \in AddsAt(pos) : IsAdded(a) /\ a \notin RenameTargets

\* the reconciler has run with two delete candidates at one position
C12_Reached ==
    /\ pc \in {"returned", "raised"}
    /\ \E pos \in CandidatePositions : Cardinality(DeletesAt(pos)) > 1

-----------------------------------------------------------------------------
(* Reading a token list back *)

IsScalar(node) == node.data_type \in {StrT, "number"}

\* position (from 1) in t of the token that was at index s of the input, 0 if gone
Least(S) == CHOOSE x \in S : \A y \in S : x <= y

PosOfSrc(t, s, k) ==
    LET at == {j \in k..Len(t) : t[j].src = s}
    IN  IF at = {} THEN 0 ELSE Least(at)

\* position of the bracket that closes the one opened before k, 0 if none
\* how many more brackets open than close from position k up to c
Opened(t, k, c) ==
    Cardinality({j \in k..(c - 1) : IsOpen(t[j])})
    - Cardinality({j \in k..(c - 1) : IsClose(t[j])})

MatchClose(t, k, depth) ==
    LET at == {c \in k..Len(t) : IsClose(t[c]) /\ depth + Opened(t, k, c) = 1}
    IN  IF at = {} THEN 0 ELSE Least(at)

\* index in the input of the bracket that opens the first node table, the
\* target part's
NodesKey(t, k) ==
    LET at == {j \in k..Len(t) : t[j].data_type = StrT /\ t[j].value = "nodes"}
    IN  IF at = {} THEN 0 ELSE Least(at)

NodesOpenSrc == NodesKey(ast_input, 1) + 1

Cell(node) == <<node.data_type, node.value>>

CellsOf(toks) ==
    LET scalars == SelectSeq(toks, IsScalar)
    IN  [c \in 1..Len(scalars) |-> Cell(scalars[c])]

RowAt(t, k, close) == [src |-> t[k].src, cells |-> CellsOf(SubSeq(t, k + 1, close - 1))]

\* the rows between positions k and last, in order
RECURSIVE RowsIn(_, _, _)
RowsIn(t, k, last) ==
    IF k > last THEN <<>>
    ELSE IF t[k].data_type = "["
         THEN <<RowAt(t, k, MatchClose(t, k + 1, 1))>>
              \o RowsIn(t, MatchClose(t, k + 1, 1) + 1, last)
    ELSE RowsIn(t, k + 1, last)

TableRowsAt(t, open) ==
    IF open = 0 THEN <<>> ELSE RowsIn(t, open + 1, MatchClose(t, open + 1, 1) - 1)

\* the rows of the target part's node table, header first
TableRows(t) == TableRowsAt(t, PosOfSrc(t, NodesOpenSrc, 1))

\* a row of the input is known by where it was, a new row by what it holds
RowSig(r) == IF r.src >= 0 THEN [src |-> r.src, cells |-> <<>>] ELSE r

RowSigs(rows) == [k \in 1..Len(rows) |-> RowSig(rows[k])]

NotDeleted(r) == ~DictHas(nodes_to_delete, r.cells[1][2])

AddedRow(e) ==
    [src |-> -1,
     cells |-> << <<StrT, e[1]>>, <<"number", e[2][1]>>,
                  <<"number", e[2][2]>>, <<"number", e[2][3]>> >>]

ExpectedRows ==
    RowSigs(SelectSeq(TableRows(ast_input), NotDeleted))
    \o [k \in 1..Len(nodes_to_add) |-> AddedRow(nodes_to_add[k])]

\* two tokens alike in kind, value, precision and origin
TokEq(a, b) ==
    /\ a.data_type = b.data_type
    /\ a.src = b.src
    /\ a.precision = b.precision
    /\ a.value = b.value

ToksEq(s, t) == Len(s) = Len(t) /\ \A k \in 1..Len(s) : TokEq(s[k], t[k])

\* the tokens up to the bracket at open and from its closing bracket on
OutsideAt(t, open) ==
    IF open = 0 THEN t
    ELSE SubSeq(t, 1, open) \o SubSeq(t, MatchClose(t, open + 1, 1), Len(t))

OutsideTable(t) == OutsideAt(t, PosOfSrc(t, NodesOpenSrc, 1))

\* The logical path of every token of a well-formed list: for a scalar that
\* is a value, the containers above it and its key or index; NoPath otherwise
NoPath == [stk |-> <<>>, key |-> 0, isStr |-> FALSE, has |-> FALSE]

PathOf(stk, key, isStr) == [stk |-> stk, key |-> key, isStr |-> isStr, has |-> TRUE]

\* where the reading stands: the containers above, the kind of the one it is
\* in, the index in it when it is a list and the key read when it is a dict
WalkAt(stk, ind, pos, key) == [stk |-> stk, ind |-> ind, pos |-> pos, key |-> key]

\* the path of one token and where the reading stands after it
WalkStep(tok, at) ==
    IF tok.data_type \in {"wsc", ":"}
    THEN [paths |-> <<NoPath>>, at |-> at]
    ELSE IF IsClose(tok)
    THEN [paths |-> <<NoPath>>,
          at |-> WalkAt(PopFrame(at.stk).stack, PopFrame(at.stk).in_dict,
                        PopFrame(at.stk).pos_in_arr, None)]
    ELSE IF IsOpen(tok)
    THEN [paths |-> <<NoPath>>,
          at |-> WalkAt(IF at.ind
                        THEN (IF at.key = None THEN at.stk
                              ELSE Append(at.stk, Frame(at.key[1], TRUE)))
                        ELSE Append(at.stk, Frame(at.pos, FALSE)),
                        tok.data_type = "{", 0, None)]
    ELSE IF at.ind
    THEN (IF at.key = None
          THEN [paths |-> <<NoPath>>,
                at |-> WalkAt(at.stk, at.ind, at.pos, <<tok.value>>)]
          ELSE [paths |-> <<PathOf(at.stk, at.key[1], TRUE)>>,
                at |-> WalkAt(at.stk, at.ind, at.pos, None)])
    ELSE [paths |-> <<PathOf(at.stk, at.pos, FALSE)>>,
          at |-> WalkAt(at.stk, at.ind, at.pos + 1, None)]

\* the tokens lo..hi read from where the reading stands, one half after the
\* other
RECURSIVE Walk(_, _, _, _)
Walk(t, lo, hi, at) ==
    IF lo > hi THEN [paths |-> <<>>, at |-> at]
    ELSE IF lo = hi THEN WalkStep(t[lo], at)
    ELSE \* each half is read once
         CHOOSE r \in UNION {{[paths |-> a.paths \o b.paths, at |-> b.at] :
                                 b \in {Walk(t, (lo + hi) \div 2 + 1, hi, a.at)}} :
                             a \in {Walk(t, lo, (lo + hi) \div 2, at)}} : TRUE

Paths(t) == Walk(t, 1, Len(t), WalkAt(<<>>, TRUE, 0, None)).paths

ValueAt(tree, p) == GetItem(Descend(tree, p.stk), p.key, p.isStr)

\* the token holds the value, two numbers being one when they are one C float
Holds(node, v) ==
    IF node.data_type = "number"
    THEN v.kind = "num" /\ to_c_float(node.value) = to_c_float(v.val)
    ELSE v.kind = "str" /\ node.value = v.val

SameValue(v, w) == v.kind = w.kind /\ v.val = w.val

\* before-tree and after-tree agree outside the target part's node table
AgreeOutsideTable ==
    /\ SameValue(current_jbeam_file_data.val[jbeam_part].val["slotType"],
                 current_jbeam_file_data_modified.val[jbeam_part].val["slotType"])
    /\ current_jbeam_file_data.val[OtherPart] = current_jbeam_file_data_modified.val[OtherPart]

-----------------------------------------------------------------------------
(* update_ast_nodes: the claims *)

\* C1: after update_ast_nodes the rows of the target part's node table are the
\* header, then the input's rows whose id is not in nodes_to_delete, in their
\* order, then one row [id, x, y, z] per entry of nodes_to_add, in its order,
\* all of them between the table's brackets.
C1_RowsAfterPatch ==
    (pc = "done" /\ pass = 1) => RowSigs(TableRows(ast_nodes)) = ExpectedRows

\* a patch that deleted the table's last row and had rows to add has returned
C1_Reached ==
    /\ pc = "done" /\ pass = 1
    /\ nodes_to_add # <<>>
    /\ nodes_to_delete # <<>>
    /\ ~NotDeleted(TableRows(ast_input)[Len(TableRows(ast_input))])

\* C2: when before-tree and after-tree agree outside the target part's node
\* table, the tokens outside that table are after update_ast_nodes what they
\* were before it: same kind, value, precision, order, none gone, none new.
C2_Frame ==
    (pc = "done" /\ pass = 1 /\ AgreeOutsideTable)
        => ToksEq(OutsideTable(ast_nodes), OutsideTable(ast_input))

\* a patch with rows to delete and rows to add, the trees agreeing outside
\* the table, has returned
C2_Reached ==
    /\ pc = "done" /\ pass = 1 /\ AgreeOutsideTable
    /\ nodes_to_add # <<>> /\ nodes_to_delete # <<>>

Survivor(node) == IsScalar(node) /\ node.src >= 0 /\ Paths(ast_input)[node.src + 1].has

SurvivorOk(node, p) ==
    /\ Holds(node, ValueAt(current_jbeam_file_data_modified, p))
    /\ SameValue(ValueAt(current_jbeam_file_data, p),
                 ValueAt(current_jbeam_file_data_modified, p))
          => TokEq(node, ast_input[node.src + 1])

\* C3: after update_ast_nodes every scalar token of the input that is still
\* there holds the after-tree's value at its path, and is as it was when the
\* before-tree's value there is the after-tree's.
C3_SurvivingScalars ==
    (pc = "done" /\ pass = 1) =>
        \A k \in 1..Len(ast_nodes) :
            Survivor(ast_nodes[k])
                => SurvivorOk(ast_nodes[k], Paths(ast_input)[ast_nodes[k].src + 1])

\* a patch whose after-tree renames and moves a row has returned
C3_Reached ==
    /\ pc = "done" /\ pass = 1
    /\ current_jbeam_file_data_modified # current_jbeam_file_data
    /\ \E k \in 1..Len(ast_nodes) :
          /\ ast_nodes[k].src >= 0
          /\ ast_nodes[k].data_type = StrT
          /\ ast_nodes[k].value = "r2"

\* C4: with nothing to add, nothing to delete and the after-tree equal to the
\* before-tree, update_ast_nodes returns and the tokens are the input's, each
\* with its kind, value and precision, in the input's order.
C4_Idempotent ==
    (/\ pass = 1
     /\ nodes_to_add = <<>> /\ nodes_to_delete = <<>>
     /\ current_jbeam_file_data_modified = current_jbeam_file_data)
        => pc # "raised" /\ ToksEq(ast_nodes, ast_input)

\* such a patch of a table with rows has returned
C4_Reached ==
    /\ pc = "done" /\ pass = 1
    /\ nodes_to_add = <<>> /\ nodes_to_delete = <<>>
    /\ current_jbeam_file_data_modified = current_jbeam_file_data
    /\ Len(TableRows(ast_input)) > 1

RowCells(rows) == [k \in 1..Len(rows) |-> rows[k].cells]

NoAdjacentWsc(t, k) ==
    \A j \in k..(Len(t) - 1) : ~(t[j].data_type = "wsc" /\ t[j + 1].data_type = "wsc")

\* C6: if no two separator tokens of the input are next to each other, none
\* are after update_ast_nodes.
C6_NoAdjacentSeparators ==
    (pc = "done" /\ pass = 1 /\ NoAdjacentWsc(ast_input, 1)) => NoAdjacentWsc(ast_nodes, 1)

\* a patch that added two rows has returned
C6_Reached ==
    /\ pc = "done" /\ pass = 1 /\ NoAdjacentWsc(ast_input, 1)
    /\ Len(nodes_to_add) >= 2

-----------------------------------------------------------------------------
(* export *)

\* The file's text, token by token as sjsonast.stringifyNodes renders it: a
\* token's kind, its value and, for a number, the decimals it is written with
Rendered(node) == <<node.data_type, node.value, node.precision>>

stringifyNodes(nodes) == [k \in 1..Len(nodes) |-> Rendered(nodes[k])]

\* sjsonast.parse of a text
sjsonast_parse(text) ==
    Numbered([k \in 1..Len(text) |-> ASTNode(text[k][1], text[k][2], text[k][3])])

\* utils.read_file found no file
NoFile == None

\* lines 531-551: the file is read, decoded and parsed, or export returns
ReadFile ==
    /\ pc = "export"
    /\ IF disk = NoFile
       THEN /\ pc' = "exported"
            /\ UNCHANGED <<ast_nodes, ast_input, current_jbeam_file_data>>
       ELSE /\ pc' = "part"
            /\ ast_nodes' = sjsonast_parse(disk)
            /\ ast_input' = sjsonast_parse(disk)
            /\ current_jbeam_file_data' = sjson_decode(sjsonast_parse(disk))
    /\ UNCHANGED <<current_jbeam_file_data_modified, jbeam_part, nodes_to_add,
                   nodes_to_delete, i, stack, in_dict, pos_in_arr, temp_dict_key, dict_key,
                   jbeam_entry_start_node_idx, jbeam_entry_end_node_idx,
                   jbeam_section_start_node_idx, jbeam_section_end_node_idx,
                   jbeam_node_id, pass, reconVars, exportVars, schemaVars>>

\* lines 553-563: the next part object of the set, in any order, and the
\* call of _get_nodes_add_delete_rename with its mesh
NextPart ==
    /\ pc = "part"
    /\ \E obj \in parts_changed :
          /\ parts_changed' = parts_changed \ {obj}
          /\ jbeam_part' = obj
          /\ bm' = meshes[obj]
          /\ bm_input' = meshes[obj]
    /\ all_nodes' = <<>> /\ node_id_to_part_origin' = <<>> /\ node_renames' = <<>>
    /\ true_node_renames' = <<>> /\ nodes_to_add' = <<>> /\ nodes_to_delete' = <<>>
    /\ vert_idx' = 0 /\ row_idx' = 0
    /\ pc' = "verts"
    /\ UNCHANGED <<scanLocals, current_jbeam_file_data, current_jbeam_file_data_modified,
                   disk, writes, meshes, schemaVars>>

\* line 569: update_ast_nodes is called with what the reconciler returned
CallPatch ==
    /\ pc = "returned"
    /\ i' = 0 /\ stack' = <<>> /\ in_dict' = TRUE /\ pos_in_arr' = 0
    /\ temp_dict_key' = None /\ dict_key' = None
    /\ jbeam_entry_start_node_idx' = -1 /\ jbeam_entry_end_node_idx' = -1
    /\ jbeam_section_start_node_idx' = -1 /\ jbeam_section_end_node_idx' = -1
    /\ jbeam_node_id' = NoneVal
    /\ pc' = "scan"
    /\ UNCHANGED <<ast_nodes, ast_input, pass, constVars>>

\* lines 570-573: the tokens are rendered and the file is written
WriteFile ==
    /\ pc = "done"
    /\ disk' = stringifyNodes(ast_nodes)
    /\ writes' = writes + 1
    /\ pc' = "part"
    /\ UNCHANGED <<scanLocals, current_jbeam_file_data, current_jbeam_file_data_modified,
                   jbeam_part, nodes_to_add, nodes_to_delete, reconVars, meshes,
                   parts_changed, schemaVars>>

\* lines 553, 575-576: no part object is left
Finish ==
    /\ pc = "part" /\ parts_changed = {}
    /\ pc' = "exported"
    /\ UNCHANGED <<scanLocals, current_jbeam_file_data, current_jbeam_file_data_modified,
                   jbeam_part, nodes_to_add, nodes_to_delete, reconVars, exportVars,
                   schemaVars>>

\* the rows of a part's node table in the exported file
PartRows(part) == IF part = PartName THEN MaxRows ELSE 1

\* the mesh of a part object as imported from the file
MeshOf(part) ==
    [k \in 1..PartRows(part) |-> Vert(RowIds[k], RowIds[k], part, RowPos(k))]

\* what the user did to the mesh: nothing, moved the first node, added a
\* node, removed the last node
PartMeshes(part) ==
    { MeshOf(part),
      [MeshOf(part) EXCEPT ![1].co = MovedCo],
      Append(MeshOf(part), Vert(AddIds[1], AddIds[1], part, AddPos(1))),
      SubSeq(MeshOf(part), 1, PartRows(part) - 1) }

\* the file of both parts, one row per line
ExportedFile(slotLast) ==
    stringifyNodes(FileToks(GapsOf(GapLine, GapLine, GapLine, MaxRows), slotLast))

\* lines 516-527: one file, the part objects of it that have changes
InitExport ==
    /\ ScanIdle /\ ReconIdle /\ SchemaIdle
    /\ current_jbeam_file_data = None /\ current_jbeam_file_data_modified = None
    /\ jbeam_part = "" /\ nodes_to_add = <<>> /\ nodes_to_delete = <<>>
    /\ pc = "export"
    /\ disk \in {ExportedFile(slotLast) : slotLast \in BOOLEAN} \cup {NoFile}
    /\ writes = 0
    /\ meshes \in [{PartName, OtherPart} -> PartMeshes(PartName) \cup PartMeshes(OtherPart)]
    /\ \A part \in {PartName, OtherPart} : meshes[part] \in PartMeshes(part)
    /\ parts_changed \in SUBSET {PartName, OtherPart} \ {{}}

NextExport ==
    \/ ReadFile \/ NextPart
    \/ ReadVert \/ CopyTree \/ ReadRow \/ Classify
    \/ RenameByIdentity \/ RenameByPosition \/ UpdateTree
    \/ CallPatch
    \/ SkipSeparator \/ ScanToken \/ ScanClose \/ Return
    \/ WriteFile \/ Finish

SpecExport == InitExport /\ [][NextExport]_vars

-----------------------------------------------------------------------------
(* export: the claims *)

\* C7: no partial write. The file is written only when the passes of all its
\* changed parts are over, and when the reconciler or the patcher raises for
\* one of its parts the file's text is the text the export found.
C7_NoPartialWrite ==
    /\ writes > 0 => (parts_changed = {} /\ pc \in {"part", "exported"})
    /\ pc = "raised" => disk = stringifyNodes(ast_input)

\* a part's pass raised after the file had been written for another part
C7_Reached == pc = "raised" /\ writes > 0

\* C8: single write per file. However many parts of the file have changes,
\* the file is written at most once, exactly once when the export has gone
\* through its parts, and the text written is the one token sequence all the
\* parts' deltas were applied to.
C8_SingleWrite ==
    /\ writes <= 1
    /\ (pc = "exported" /\ ast_input # <<>>) =>
          (writes = 1 /\ disk = stringifyNodes(ast_nodes))

\* the export went through two changed parts of the file
C8_Reached == pc = "exported" /\ parts_changed = {} /\ writes = 2

-----------------------------------------------------------------------------
(* table_schema: Python values *)

PyStr(s)  == <<"str", s>>
PyInt(n)  == <<"int", n>>
PyBool(b) == <<"bool", b>>
PyList(s) == <<"list", s>>
PyDict(d) == <<"dict", d>>

isinstance(v, t) == v[1] = t

\* the element of a one-element set
Only(S) == CHOOSE x \in S : TRUE

\* an update that keeps the values d has
updateNew(d, other) == d \o SelectSeq(other, LAMBDA e : ~DictHas(d, e[1]))

\* dict.update: the keys d has keep their place, the others follow in other's order
update(d, other) ==
    [k \in 1..Len(d) |-> IF DictHas(other, d[k][1])
                         THEN <<d[k][1], DictGet(other, d[k][1])>> ELSE d[k]]
    \o SelectSeq(other, LAMBDA e : ~DictHas(d, e[1]))

\* jbeam_utils.Metadata: the class is the key, an instance holds _data
MetadataKey == <<"class", "Metadata">>

Metadata(data) == <<"Metadata", data>>

merge(m, other) == Metadata(update(m[2], other[2]))

\* utils.row_dict_deepcopy
row_dict_deepcopy(d) == d

\* row_value with a Metadata entry when it has none
WithMetadata(d) ==
    IF DictHas(d, MetadataKey) THEN d ELSE Append(d, <<MetadataKey, Metadata(<<>>)>>)

\* the variable references of a row's metadata, from column index to column name
RECURSIVE KeysFromHeader(_, _, _)
KeysFromHeader(data, keys, header) ==
    IF keys = <<>> THEN data
    ELSE IF isinstance(keys[1], "int")
         THEN Only({KeysFromHeader(renamed, Tail(keys), header) :
                       renamed \in {Append(DictPop(data, keys[1]),
                                           <<At(header, keys[1][2]),
                                             DictGet(data, keys[1])>>)}})
         ELSE KeysFromHeader(data, Tail(keys), header)

-----------------------------------------------------------------------------
(* table_schema.process_table_with_schema_destructive *)

Failure == -1

\* a bare-map row that leaves the running options as they are
ModifierRowIgnored(local_options, row_value) ==
    [row_value |-> WithMetadata(row_value), local_options |-> local_options]

\* a bare-map row: merged into the running options
ModifierRow(local_options, row_value) ==
    LET row             == WithMetadata(row_value)
        options_metadata == merge(DictGet(local_options, MetadataKey),
                                  DictGet(row, MetadataKey))
    IN  [row_value     |-> row,
         local_options |-> DictSet(update(local_options, row), MetadataKey,
                                   options_metadata)]

\* the first index from header_size on that holds a map, -1 when none does
InlineOptions(row_value, header_size) ==
    LET at == {rk \in header_size..(Len(row_value) - 1) :
                   isinstance(At(row_value, rk), "dict")}
    IN  IF at = {} THEN -1 ELSE CHOOSE rk \in at : \A o \in at : rk <= o

\* new_row[header[rk]] = rv for the cells the header has a column for
RECURSIVE Cells(_, _, _, _, _)
Cells(new_row, row_value, header, header_size, rk) ==
    IF rk >= Len(row_value) THEN new_row
    ELSE IF rk >= header_size THEN Cells(new_row, row_value, header, header_size, rk + 1)
    ELSE Only({Cells(set, row_value, header, header_size, rk + 1) :
                  set \in {DictSet(new_row, At(header, rk), At(row_value, rk))}})

\* a key that is the row's index whatever the row map holds
RowKeyByIndex(cells, row_key) == PyInt(row_key)

\* lines 142, 197-198: the key of a row map, its id when it has one
RowKey(cells, row_key) ==
    IF DictHas(cells, PyStr("id")) THEN DictGet(cells, PyStr("id")) ELSE PyInt(row_key)

\* a sequence row no longer than header_size + 1: the row map and its key
DefinitionRow(local_options, header, header_size, row_key, row_value) ==
    LET row1 == IF Len(row_value) = header_size
                THEN Append(row_value, PyDict(<<<<MetadataKey, Metadata(<<>>)>>>>))
                ELSE row_value
        rk   == InlineOptions(row1, header_size)
        rv   == WithMetadata(At(row1, rk)[2])
        base == row_dict_deepcopy(local_options)
        new_row_metadata ==
            LET m == merge(DictGet(base, MetadataKey), DictGet(rv, MetadataKey))
            IN  Metadata(KeysFromHeader(m[2], [k \in 1..Len(m[2]) |-> m[2][k][1]], header))
        merged == IF rk = -1 THEN base
                  ELSE DictSet(update(base, rv), MetadataKey, new_row_metadata)
        row2 == IF rk = -1 THEN row1
                ELSE SubSeq(row1, 1, rk) \o SubSeq(row1, rk + 2, Len(row1))
    IN  Only({LET hasId  == DictHas(cells, PyStr("id"))
                  new_id == RowKey(cells, row_key)
              IN  [row_value |-> row2,
                   new_id    |-> new_id,
                   new_row   |-> PyDict(IF hasId
                                        THEN DictPop(DictSet(cells, PyStr("name"), new_id),
                                                     PyStr("id"))
                                        ELSE cells)] :
              cells \in {Cells(merged, row2, header, header_size, 0)}})

\* the loop over the rows, from row_key on; st holds the loop's variables
RECURSIVE WalkRows(_, _, _, _)
WalkRows(st, header, header_size, row_key) ==
    IF row_key >= Len(st.jbeam_table) THEN [st EXCEPT !.ret = <<st.new_list_size>>]
    ELSE LET row_value == At(st.jbeam_table, row_key) IN
         IF isinstance(row_value, "dict")
         THEN Only({WalkRows([st EXCEPT !.jbeam_table[row_key + 1] = PyDict(r.row_value),
                                        !.local_options = r.local_options],
                             header, header_size, row_key + 1) :
                       r \in {ModifierRow(st.local_options, row_value[2])}})
         ELSE IF isinstance(row_value, "list")
         THEN IF Len(row_value[2]) > header_size + 1
              THEN [st EXCEPT !.ret = <<Failure>>]
              ELSE Only({WalkRows([st EXCEPT !.jbeam_table[row_key + 1] = PyList(r.row_value),
                                             !.new_dict = DictSet(@, r.new_id, r.new_row),
                                             !.new_list_size = @ + 1],
                                  header, header_size, row_key + 1) :
                            r \in {DefinitionRow(st.local_options, header, header_size,
                                                 row_key, row_value[2])}})
         ELSE [st EXCEPT !.ret = <<Failure>>]

\* a fingerprint of the table alone
EncodedTable(table, options) == <<table, None>>

\* pickle.dumps of the two arguments
Encoded(table, options) == <<table, options>>

\* the call: what it returns and what it leaves in its arguments and in memo
process_table_with_schema_destructive(table, out, options, mem) ==
    LET encoded == Encoded(table, options)
        kept    == [ret |-> None, jbeam_table |-> table, new_dict |-> out, memo |-> mem,
                    raised |-> FALSE, hit |-> FALSE]
    IN
    IF DictHas(mem, encoded)
    THEN [kept EXCEPT !.ret = <<DictGet(mem, encoded)[2]>>,
                      !.new_dict = update(out, DictGet(mem, encoded)[1]),
                      !.hit = TRUE]
    ELSE IF table = <<>> THEN [kept EXCEPT !.raised = TRUE]
    ELSE IF ~isinstance(table[1], "list") THEN [kept EXCEPT !.ret = <<Failure>>]
    ELSE IF table[1][2] = <<>> THEN [kept EXCEPT !.raised = TRUE]
    ELSE
    LET header0     == table[1][2]
        header_size == Len(header0)
        header      == IF header0[header_size] # PyStr("options")
                       THEN Append(header0, PyStr("options")) ELSE header0
        options0    == IF options # None THEN row_dict_deepcopy(options[2]) ELSE <<>>
        local_options == IF ~DictHas(options0, MetadataKey)
                            \/ DictGet(options0, MetadataKey) = Metadata(<<>>)
                         THEN DictSet(options0, MetadataKey, Metadata(<<>>))
                         ELSE options0
    IN  Only({[kept EXCEPT !.ret = end.ret,
                           !.jbeam_table = end.jbeam_table,
                           !.new_dict = end.new_dict,
                           !.memo = IF end.ret = <<Failure>> THEN mem
                                    ELSE DictSet(mem, encoded,
                                                 <<end.new_dict, end.new_list_size>>)] :
              end \in {WalkRows([jbeam_table |-> Tail(table),
                                 local_options |-> local_options,
                                 new_dict |-> out, new_list_size |-> 0, ret |-> None],
                                header, header_size, 0)}})

-----------------------------------------------------------------------------
(* table_schema: the tables the processor is called with *)

MaxTableRows == 3   \* rows of a table after its header
MaxCalls == 2       \* calls of the table processor in one run

Group(g) == PyDict(<<<<PyStr("group"), PyStr(g)>>>>)

TableRow(id, x) == PyList(<<PyStr(id), PyInt(x)>>)

\* a header with an id column, one without, one that names its options column,
\* one that is no sequence and one without columns
Headers ==
    {PyList(<<PyStr("id"), PyStr("x")>>),
     PyList(<<PyStr("x")>>),
     PyList(<<PyStr("id"), PyStr("x"), PyStr("options")>>),
     PyStr("id"),
     PyList(<<>>)}

\* two plain rows, a bare map, a row with inline options, a row of four cells
\* and a row that is neither a map nor a sequence
SchemaRows ==
    {TableRow("n1", 1), TableRow("n2", 2), Group("X"),
     PyList(<<PyStr("n2"), PyInt(2), Group("Y")>>),
     PyList(<<PyStr("n3"), PyInt(3), PyInt(4), PyInt(5)>>),
     PyStr("junk")}

Tables ==
    {<<h>> \o rows : h \in Headers,
                     rows \in UNION {[1..n -> SchemaRows] : n \in 0..MaxTableRows}}

OptionSets == {None, Group("Z")}

ExampleTable ==
    <<PyList(<<PyStr("id"), PyStr("x")>>), TableRow("n1", 1), Group("X"), TableRow("n2", 2)>>

\* what the table processor leaves alone
schemaFrame == <<scanLocals, current_jbeam_file_data, current_jbeam_file_data_modified,
                 jbeam_part, nodes_to_add, nodes_to_delete, reconVars, exportVars>>

\* table_schema.py lines 94-211: one call
CallTable ==
    /\ pc = "call"
    /\ \E r \in {process_table_with_schema_destructive(jbeam_table, new_dict,
                                                       input_options, memo)} :
           /\ pc' = IF r.raised THEN "raised" ELSE "called"
           /\ ret' = r.ret
           /\ jbeam_table' = r.jbeam_table
           /\ new_dict' = r.new_dict
           /\ memo' = r.memo
           /\ calls' = Append(calls, [jbeam_table |-> jbeam_table,
                                      input_options |-> input_options,
                                      ret |-> r.ret, new_dict |-> r.new_dict,
                                      hit |-> r.hit])
    /\ UNCHANGED <<input_options, vehicle, vehicle_input, schemaFrame>>

\* table_schema.py lines 304-305: the caller comes with a table again, the
\* first one's content or another, and a fresh output map
CallAgain ==
    /\ pc = "called" /\ Len(calls) < MaxCalls
    /\ \E table \in {calls[1].jbeam_table, ExampleTable}, options \in OptionSets :
          /\ jbeam_table' = table
          /\ input_options' = options
    /\ new_dict' = <<>>
    /\ pc' = "call"
    /\ UNCHANGED <<memo, ret, calls, vehicle, vehicle_input, schemaFrame>>

InitTable ==
    /\ ScanIdle /\ ReconIdle /\ ExportIdle
    /\ current_jbeam_file_data = None /\ current_jbeam_file_data_modified = None
    /\ jbeam_part = "" /\ nodes_to_add = <<>> /\ nodes_to_delete = <<>>
    /\ pc = "call"
    /\ memo = <<>> /\ new_dict = <<>> /\ ret = None /\ calls = <<>>
    /\ vehicle = <<>> /\ vehicle_input = <<>>
    /\ jbeam_table \in Tables
    /\ input_options \in OptionSets

NextTable == CallTable \/ CallAgain

SpecTable == InitTable /\ [][NextTable]_vars

-----------------------------------------------------------------------------
(* table_schema: the claims about the table processor *)

\* the calls that returned a row count
Counted == {n \in 1..Len(calls) : calls[n].ret # None /\ calls[n].ret # <<Failure>>}

\* the call that has just returned, when it returned a row count
JustCounted == IF pc = "called" THEN Counted \cap {Len(calls)} ELSE {}

\* the call that has just returned
JustCalled == IF pc = "called" THEN {Len(calls)} ELSE {}

HeaderOf(table) == table[1][2]

\* the rows after the header, row k at index k from 0
RowsOf(table) == Tail(table)

IsRowMap(row) == isinstance(row, "dict")

IsRowSeq(row) == isinstance(row, "list")

\* the columns of the header as the call found it
ColumnsOf(table) == Len(HeaderOf(table))

\* the index of the header's id column, -1 when it has none
IdColumn(table) ==
    LET at == {c \in 0..(ColumnsOf(table) - 1) : At(HeaderOf(table), c) = PyStr("id")}
    IN  IF at = {} THEN -1 ELSE CHOOSE c \in at : TRUE

\* the key of sequence row k: its id cell, its index when the header has no id
KeyOf(table, k) ==
    IF IdColumn(table) = -1 THEN PyInt(k)
    ELSE At(At(RowsOf(table), k)[2], IdColumn(table))

SeqRowsOf(table) == {k \in 0..(Len(RowsOf(table)) - 1) : IsRowSeq(At(RowsOf(table), k))}

\* no later sequence row is stored under row k's key
LastOfKey(table, k) ==
    \A l \in SeqRowsOf(table) : l > k => KeyOf(table, l) # KeyOf(table, k)

HasGroup(d) == DictHas(d, PyStr("group"))

\* the inline options of sequence row k: a map in the cell after the header's columns
HasInline(table, k) ==
    LET row == At(RowsOf(table), k)[2]
    IN  /\ Len(row) = ColumnsOf(table) + 1
        /\ IsRowMap(row[Len(row)])
        /\ HasGroup(row[Len(row)][2])

\* the bare maps before row k that set the group
MapsBefore(table, k) ==
    {j \in 0..(k - 1) : /\ IsRowMap(At(RowsOf(table), j))
                        /\ HasGroup(At(RowsOf(table), j)[2])}

\* where row k's group comes from: its inline options, else the nearest bare map
\* before it, else the options the call came with; None when from nowhere
GroupFor(table, options, k) ==
    IF HasInline(table, k)
    THEN DictGet(At(RowsOf(table), k)[2][ColumnsOf(table) + 1][2], PyStr("group"))
    ELSE IF MapsBefore(table, k) # {}
    THEN DictGet(At(RowsOf(table),
                    CHOOSE j \in MapsBefore(table, k) :
                        \A o \in MapsBefore(table, k) : o <= j)[2], PyStr("group"))
    ELSE IF options # None /\ HasGroup(options[2])
    THEN DictGet(options[2], PyStr("group"))
    ELSE None

\* the row map the call stored for sequence row k
Stored(call, k) == DictGet(call.new_dict, KeyOf(call.jbeam_table, k))[2]

\* C13: forward-only overlay. In the output of every call, once it has
\* returned a row count, a sequence row holds a field of a bare map only when the bare map
\* comes before it in the table: the row's group is the one of its inline
\* options, else of the nearest bare map before it, else of the options the
\* call came with, and the row has no group when none of these has one,
\* whatever bare maps follow it.
C13_ForwardOverlay ==
    \A n \in JustCounted :
        \A k \in SeqRowsOf(calls[n].jbeam_table) :
            LastOfKey(calls[n].jbeam_table, k) =>
                LET group == GroupFor(calls[n].jbeam_table, calls[n].input_options, k)
                IN  /\ DictHas(calls[n].new_dict, KeyOf(calls[n].jbeam_table, k))
                    /\ group = None => ~HasGroup(Stored(calls[n], k))
                    /\ group # None =>
                          /\ HasGroup(Stored(calls[n], k))
                          /\ DictGet(Stored(calls[n], k), PyStr("group")) = group

\* the table [[id,x],[n1,1],{group:X},[n2,2]] has been processed without
\* options: n1 has no group and n2 has group X
C13_Reached ==
    /\ pc = "called" /\ Len(calls) = 1
    /\ calls[1].jbeam_table = ExampleTable /\ calls[1].input_options = None
    /\ ret = <<2>>
    /\ ~HasGroup(Stored(calls[1], 0))
    /\ DictGet(Stored(calls[1], 2), PyStr("group")) = PyStr("X")

\* what the three failure conditions say of a table: its first element is no
\* sequence, a row is neither a map nor a sequence, or a sequence row has
\* more cells than the header has columns plus one
Malformed(table) ==
    \/ ~IsRowSeq(table[1])
    \/ \E k \in 0..(Len(RowsOf(table)) - 1) :
          /\ ~IsRowMap(At(RowsOf(table), k))
          /\ ~IsRowSeq(At(RowsOf(table), k))
    \/ \E k \in SeqRowsOf(table) : Len(At(RowsOf(table), k)[2]) > ColumnsOf(table) + 1

\* the calls that returned, and what they returned
ReturnsAsSaid ==
    \A n \in 1..Len(calls) :
        calls[n].ret # None =>
            /\ calls[n].ret = <<Failure>> <=> Malformed(calls[n].jbeam_table)
            /\ ~Malformed(calls[n].jbeam_table) => calls[n].ret[1] >= 0

\* C14: table failure conditions. Every call returns: the failure sentinel
\* -1 exactly when the table's first element is no sequence, or a row is
\* neither a map nor a sequence, or a sequence row has more than header
\* length + 1 cells, and a row count that is not negative otherwise.
C14_FailureConditions ==
    /\ pc # "raised"
    /\ ReturnsAsSaid

\* a call with a table under none of the three conditions has not returned
C14_Reached ==
    /\ pc = "raised"
    /\ ~Malformed(jbeam_table)
    /\ HeaderOf(jbeam_table) = <<>>

\* the index of the header's x column
XColumn(table) ==
    CHOOSE c \in 0..(ColumnsOf(table) - 1) : At(HeaderOf(table), c) = PyStr("x")

\* a table without id column: a bare map, then a row at index 1
IndexedTable == <<PyList(<<PyStr("x")>>), Group("X"), TableRow("n1", 1)>>

\* C15: row keying. In the output of every call, once it has returned a row
\* count, no row map has an id field; a sequence row with an id is held under its id and
\* has that id as its name, a sequence row without id is held under its index
\* among the rows after the header, and the row map holds the row's cells.
\* Where several rows have one key the output holds the last of them.
C15_RowKeying ==
    \A n \in JustCounted :
        /\ \A key \in DictKeys(calls[n].new_dict) :
              ~DictHas(DictGet(calls[n].new_dict, key)[2], PyStr("id"))
        /\ \A k \in SeqRowsOf(calls[n].jbeam_table) :
              LastOfKey(calls[n].jbeam_table, k) =>
                  LET table == calls[n].jbeam_table
                      row   == At(RowsOf(table), k)[2]
                  IN  /\ IF IdColumn(table) # -1
                         THEN /\ DictHas(calls[n].new_dict, At(row, IdColumn(table)))
                              /\ DictHas(Stored(calls[n], k), PyStr("name"))
                              /\ DictGet(Stored(calls[n], k), PyStr("name"))
                                    = At(row, IdColumn(table))
                         ELSE /\ DictHas(calls[n].new_dict, PyInt(k))
                              /\ ~DictHas(Stored(calls[n], k), PyStr("name"))
                      /\ DictGet(Stored(calls[n], k), PyStr("x")) = At(row, XColumn(table))

\* a table without id column and one with an id column have been processed
C15_Reached ==
    /\ pc = "called" /\ Len(calls) = 2
    /\ calls[1].jbeam_table = IndexedTable
    /\ DictKeys(calls[1].new_dict) = {PyInt(1)}
    /\ calls[2].jbeam_table = ExampleTable
    /\ DictKeys(calls[2].new_dict) = {PyStr("n1"), PyStr("n2")}

\* call n comes with the content call m came with
SameContent(m, n) ==
    /\ calls[m].jbeam_table = calls[n].jbeam_table
    /\ calls[m].input_options = calls[n].input_options

\* the calls before call n that returned a row count for call n's content
EarlierSame(n) == {m \in Counted : m < n /\ SameContent(m, n)}

\* what the call returns and leaves in an empty output map when memo is empty
Uncached(call) ==
    process_table_with_schema_destructive(call.jbeam_table, <<>>, call.input_options, <<>>)

\* C16: memoization equivalence. Of every call, once it has returned: when
\* its table and options have the content of an earlier call that returned a
\* row count it is served from memo, and it returns the row count and leaves
\* in its output map, empty at the call, the content that the computation
\* without memo gives for that input; no other call is served from memo.
C16_Memoization ==
    \A n \in JustCalled :
        /\ calls[n].hit <=> EarlierSame(n) # {}
        /\ calls[n].hit =>
              /\ calls[n].ret = Uncached(calls[n]).ret
              /\ calls[n].new_dict = Uncached(calls[n]).new_dict

\* a second call with the first call's content has been served from memo
\* with a row map in its output
C16_Reached ==
    /\ pc = "called" /\ Len(calls) = 2
    /\ calls[2].hit /\ SameContent(1, 2)
    /\ calls[2].ret[1] > 0 /\ new_dict # <<>>

-----------------------------------------------------------------------------
(* table_schema.process *)

IsContainer(v) == isinstance(v, "dict") \/ isinstance(v, "list")

\* vehicle.get(key, {})
GetOrEmpty(veh, key) == IF DictHas(veh, key) THEN DictGet(veh, key) ELSE PyDict(<<>>)

\* vehicle[outer][inner] = val
SetInner(veh, outer, inner, val) ==
    DictSet(veh, outer, PyDict(DictSet(DictGet(veh, outer)[2], inner, val)))

\* lines 269-274
WithTables(veh) ==
    Only({Only({DictSet(withBeams, PyStr("options"), GetOrEmpty(withBeams, PyStr("options"))) :
                   withBeams \in {DictSet(reset, PyStr("beams"),
                                          GetOrEmpty(reset, PyStr("beams")))}}) :
             reset \in {DictSet(DictSet(veh, PyStr("maxIDs"), PyDict(<<>>)),
                                PyStr("validTables"), PyDict(<<>>))}})

\* lines 277-282: the scalars of the top level move into the options
Hoisted(veh) ==
    LET scalars == SelectSeq(veh, LAMBDA e : ~IsContainer(e[2]))
        kept    == SelectSeq(veh, LAMBDA e : IsContainer(e[2]))
    IN  DictSet(kept, PyStr("options"),
                PyDict(update(DictGet(veh, PyStr("options"))[2], scalars)))

\* the names of the model's sections that the pattern of line 287 does not match
InvalidNames == {"0nodes"}

\* jbeam_utils.ignore_sections
ignore_sections == {"maxIDs", "options"}

\* lines 303-309: a list-valued section goes through the table processor
TableSection(st, key_entry, entry) ==
    IF DictHas(DictGet(st.vehicle, PyStr("validTables"))[2], key_entry) THEN st
    ELSE Only({IF r.raised THEN [st EXCEPT !.raised = TRUE]
               ELSE [st EXCEPT
                       !.memo = r.memo,
                       !.calls = Append(@, [jbeam_table |-> entry[2],
                                            input_options |-> DictGet(st.vehicle, PyStr("options")),
                                            ret |-> r.ret, new_dict |-> r.new_dict,
                                            hit |-> r.hit]),
                       !.vehicle =
                           DictSet(IF r.ret[1] > 0
                                   THEN SetInner(st.vehicle, PyStr("validTables"),
                                                 key_entry, PyBool(TRUE))
                                   ELSE st.vehicle,
                                   key_entry, PyDict(r.new_dict))] :
               r \in {process_table_with_schema_destructive(
                          entry[2], <<>>, DictGet(st.vehicle, PyStr("options")), st.memo)}})

\* lines 285-309: the loop over the sections, from item k on
RECURSIVE Sections(_, _)
Sections(st, k) ==
    IF st.raised THEN st
    ELSE IF k > Len(st.vehicle) THEN [st EXCEPT !.ret = <<TRUE>>]
    ELSE LET key_entry == st.vehicle[k][1]
             entry     == st.vehicle[k][2]
         IN
         IF key_entry[2] \in InvalidNames THEN [st EXCEPT !.ret = <<FALSE>>]
         ELSE Only({Only({Sections(next, k + 1) :
                       next \in {IF /\ IsContainer(entry)
                                    /\ key_entry[2] \notin ignore_sections
                                    /\ Len(entry[2]) > 0
                                 THEN IF isinstance(entry, "dict")
                                      THEN IF key_entry = PyStr("slots")
                                           THEN [counted EXCEPT !.vehicle =
                                                    SetInner(@, PyStr("validTables"),
                                                             key_entry, PyBool(TRUE))]
                                           ELSE counted
                                      ELSE TableSection(counted, key_entry, entry)
                                 ELSE counted}}) :
               counted \in {[st EXCEPT !.vehicle =
                                SetInner(@, PyStr("maxIDs"), key_entry, PyInt(0))]}})

\* the call: what it returns and what it leaves in vehicle and in memo
process(veh, mem) ==
    Only({Sections([vehicle |-> hoisted, memo |-> mem, calls |-> <<>>,
                    ret |-> None, raised |-> FALSE], 1) :
             hoisted \in {Hoisted(WithTables(veh))}})

-----------------------------------------------------------------------------
(* table_schema.post_process *)

FirstKeyIsInt(tbl) ==
    isinstance(tbl, "dict") /\ Len(tbl[2]) > 0 /\ isinstance(tbl[2][1][1], "int")

\* line 223: a table to convert has a key that is no integer
HasStrayKey(veh) ==
    \E k \in 1..Len(veh) :
        /\ FirstKeyIsInt(veh[k][2])
        /\ \E e \in 1..Len(veh[k][2][2]) : ~isinstance(veh[k][2][2][e][1], "int")

\* lines 214-233: ret is <<FALSE>> from line 225 and None from the end of the body
convert_dict_to_list_tables(veh) ==
    IF HasStrayKey(veh) THEN [vehicle |-> veh, ret |-> <<FALSE>>]
    ELSE [vehicle |-> [k \in 1..Len(veh) |->
                          IF FirstKeyIsInt(veh[k][2])
                          THEN <<veh[k][1],
                                 PyList([e \in 1..Len(veh[k][2][2]) |-> veh[k][2][2][e][2]])>>
                          ELSE veh[k]],
          ret |-> None]

\* the names of the model's fields that hold ':'
ColonNames == {"id1:", "id2:"}

\* line 248: if nodes
Truthy(nodes) == nodes # None /\ Len(nodes[2]) > 0

\* rv in nodes
InNodes(rv, nodes) ==
    IF isinstance(nodes, "dict") THEN DictHas(nodes[2], rv)
    ELSE \E e \in 1..Len(nodes[2]) : nodes[2][e] = rv

\* lines 249-252
RefersOutside(row_value, nodes) ==
    \E e \in 1..Len(row_value) :
        /\ isinstance(row_value[e][1], "str") /\ isinstance(row_value[e][2], "str")
        /\ row_value[e][1][2] \in ColonNames
        /\ ~InNodes(row_value[e][2], nodes)

\* lines 247-256: one row of a list section
Checked(row_value, nodes) ==
    IF Truthy(nodes)
    THEN IF RefersOutside(row_value[2], nodes)
         THEN PyDict(DictSet(row_value[2], PyStr("__virtual"), PyBool(TRUE)))
         ELSE row_value
    ELSE PyDict(DictSet(row_value[2], PyStr("__virtual"), PyBool(TRUE)))

\* lines 237-257
check_node_references(veh) ==
    LET nodes == IF DictHas(veh, PyStr("nodes")) THEN DictGet(veh, PyStr("nodes")) ELSE None
    IN  [k \in 1..Len(veh) |->
            IF veh[k][1] # PyStr("nodes") /\ isinstance(veh[k][2], "list")
            THEN <<veh[k][1],
                   PyList([e \in 1..Len(veh[k][2][2]) |-> Checked(veh[k][2][2][e], nodes)])>>
            ELSE veh[k]]

\* lines 260-264
post_process(veh) ==
    [vehicle |-> check_node_references(convert_dict_to_list_tables(veh).vehicle),
     ret     |-> <<TRUE>>]

-----------------------------------------------------------------------------
(* table_schema: the vehicles process and post_process are called with *)

Strs(names) == PyList([k \in 1..Len(names) |-> PyStr(names[k])])

NodesHeader == Strs(<<"id", "posX">>)

BeamsHeader == Strs(<<"id1:", "id2:">>)

PropsHeader == Strs(<<"func", "mesh">>)

\* no node table, one of a header alone, one of two rows, one whose second
\* row is no row
NodesTables ==
    {None,
     PyList(<<NodesHeader>>),
     PyList(<<NodesHeader, TableRow("a", 0), TableRow("b", 1)>>),
     PyList(<<NodesHeader, TableRow("a", 0), PyStr("junk")>>)}

\* no beam table, one beam between nodes, a beam to a node that is none, a
\* beam with an id of its own, a beam of four cells
BeamsTables ==
    {None,
     PyList(<<BeamsHeader, Strs(<<"a", "b">>)>>),
     PyList(<<BeamsHeader, Strs(<<"a", "b">>), Strs(<<"a", "z">>)>>),
     PyList(<<BeamsHeader, Strs(<<"a", "b">>),
              PyList(<<PyStr("a"), PyStr("b"), PyDict(<<<<PyStr("id"), PyStr("s")>>>>)>>)>>),
     PyList(<<BeamsHeader, Strs(<<"a", "b">>), Strs(<<"a", "b", "c", "d">>)>>)}

\* a table none of whose columns refers to a node
PropsTables == {None, PyList(<<PropsHeader, Strs(<<"rpm", "needle">>)>>)}

Section(name, value) == IF value = None THEN <<>> ELSE <<<<PyStr(name), value>>>>

Vehicles ==
    {Section("slotType", slotType) \o Section("nodes", nodes) \o Section("beams", beams)
     \o Section("props", props) \o Section("0nodes", other) :
        slotType \in {None, PyStr("main")}, nodes \in NodesTables, beams \in BeamsTables,
        props \in PropsTables, other \in {None, PyList(<<>>)}}

\* table_schema.py lines 267-311
Process ==
    /\ pc = "process"
    /\ \E r \in {process(vehicle, memo)} :
           /\ pc' = IF r.raised THEN "raised" ELSE "processed"
           /\ vehicle' = r.vehicle
           /\ memo' = r.memo
           /\ calls' = r.calls
           /\ ret' = r.ret
    /\ UNCHANGED <<jbeam_table, new_dict, input_options, vehicle_input, schemaFrame>>

\* table_schema.py lines 260-264, on the vehicle that process has been through
PostProcess ==
    /\ pc = "processed" /\ ret = <<TRUE>>
    /\ \E r \in {post_process(vehicle)} :
           /\ vehicle' = r.vehicle
           /\ ret' = r.ret
    /\ vehicle_input' = vehicle
    /\ pc' = "post_processed"
    /\ UNCHANGED <<memo, calls, jbeam_table, new_dict, input_options, schemaFrame>>

InitVehicle ==
    /\ ScanIdle /\ ReconIdle /\ ExportIdle
    /\ current_jbeam_file_data = None /\ current_jbeam_file_data_modified = None
    /\ jbeam_part = "" /\ nodes_to_add = <<>> /\ nodes_to_delete = <<>>
    /\ pc = "process"
    /\ memo = <<>> /\ jbeam_table = <<>> /\ new_dict = <<>> /\ input_options = <<>>
    /\ ret = None /\ calls = <<>>
    /\ vehicle \in Vehicles
    /\ vehicle_input = vehicle

NextVehicle == Process \/ PostProcess

SpecVehicle == InitVehicle /\ [][NextVehicle]_vars

-----------------------------------------------------------------------------
(* table_schema: the claims about process and post_process *)

\* the list-valued sections process was called with that hold a row or a header
TableSections ==
    {vehicle_input[k][1] : k \in {e \in 1..Len(vehicle_input) :
                                     /\ isinstance(vehicle_input[e][2], "list")
                                     /\ Len(vehicle_input[e][2][2]) > 0}}

\* the section's table went through the table processor, which returned -1
FailedSection(key) ==
    \E n \in 1..Len(calls) :
        /\ calls[n].jbeam_table = DictGet(vehicle_input, key)[2]
        /\ calls[n].ret = <<Failure>>

NamesValid == \A k \in 1..Len(vehicle_input) : vehicle_input[k][1][2] \notin InvalidNames

MarkedValid(key) == DictHas(DictGet(vehicle, PyStr("validTables"))[2], key)

\* what process does about a failed section apart from what it stores for it
OthersGoOn ==
    (pc = "processed" /\ NamesValid) =>
        /\ ret = <<TRUE>>
        /\ \A key \in TableSections :
              /\ isinstance(DictGet(vehicle, key), "dict")
              /\ FailedSection(key) => ~MarkedValid(key)
              /\ (~FailedSection(key) /\ Len(DictGet(vehicle_input, key)[2]) > 1)
                    => MarkedValid(key)

\* C17: per-section failure isolation. When the table processor returns -1
\* for a list-valued section, process stores an empty output for the
\* section, does not mark it valid, processes the other sections and
\* returns success.
C17_FailureIsolation ==
    /\ OthersGoOn
    /\ (pc = "processed" /\ NamesValid) =>
          \A key \in TableSections :
              FailedSection(key) => DictGet(vehicle, key) = PyDict(<<>>)

\* process has returned with a failed section behind it and another table
\* section after it
C17_Reached ==
    /\ pc = "processed" /\ NamesValid
    /\ PyStr("nodes") \in TableSections /\ FailedSection(PyStr("nodes"))
    /\ DictKeys(DictGet(vehicle, PyStr("nodes"))[2]) = {PyStr("a")}
    /\ PyStr("props") \in TableSections /\ MarkedValid(PyStr("props"))

\* C18: sparse-map conversion failure is fatal. When a map section of the
\* vehicle whose first key is an integer also holds a key that is no integer,
\* post_process does not return success.
C18_SparseFailureFatal ==
    (pc = "post_processed" /\ HasStrayKey(vehicle_input)) => ret # <<TRUE>>

\* post_process has returned for a vehicle whose beams are keyed by 0 and by
\* an id, and no table of the vehicle has been converted
C18_Reached ==
    /\ pc = "post_processed" /\ HasStrayKey(vehicle_input)
    /\ DictKeys(DictGet(vehicle_input, PyStr("beams"))[2]) = {PyInt(0), PyStr("s")}
    /\ ret = <<TRUE>>
    /\ vehicle = vehicle_input

\* the list sections of the vehicle other than nodes, by their place
ListSections ==
    {k \in 1..Len(vehicle) : /\ vehicle[k][1] # PyStr("nodes")
                             /\ isinstance(vehicle[k][2], "list")}

Flagged(row) == DictHas(row[2], PyStr("__virtual"))

HasNodeTable == DictHas(vehicle_input, PyStr("nodes"))

\* the ids of the node table post_process was called with
NodeIds == DictKeys(DictGet(vehicle_input, PyStr("nodes"))[2])

\* the row has a field whose name holds ':' and whose string is no node id
Dangling(row) ==
    \E e \in 1..Len(row[2]) :
        /\ isinstance(row[2][e][1], "str") /\ row[2][e][1][2] \in ColonNames
        /\ isinstance(row[2][e][2], "str") /\ row[2][e][2] \notin NodeIds

\* the rows of the list sections are flagged as said, for the vehicles chosen by with
FlaggedAsSaid(with) ==
    (pc = "post_processed" /\ with) =>
        /\ \A k \in ListSections : \A e \in 1..Len(vehicle[k][2][2]) :
              Flagged(vehicle[k][2][2][e])
                  <=> (HasNodeTable => Dangling(vehicle[k][2][2][e]))
        /\ HasNodeTable =>
              \A e \in 1..Len(DictGet(vehicle, PyStr("nodes"))[2]) :
                  ~Flagged(DictGet(vehicle, PyStr("nodes"))[2][e][2])

\* C19: virtual flagging. When the vehicle has a node table, an empty one
\* included, a row of another list section is flagged __virtual exactly when
\* a field of it whose name holds ':' has a string that is no id of the node
\* table; when the vehicle has no node table every row of every other list
\* section is flagged; no row of the nodes section is flagged.
C19_VirtualFlagging == FlaggedAsSaid(TRUE)

\* post_process has returned for a vehicle with an empty node table and a
\* props row, which refers to no node, and the row is flagged
C19_Reached ==
    /\ pc = "post_processed"
    /\ HasNodeTable /\ NodeIds = {}
    /\ \E k \in ListSections :
          /\ vehicle[k][1] = PyStr("props")
          /\ ~Dangling(vehicle[k][2][2][1]) /\ Flagged(vehicle[k][2][2][1])

-----------------------------------------------------------------------------
(* compare_and_set_value on two numbers *)

\* the number n / 100000 to the nearest 2^-26: 2^26 / 100000 is 671.08864
Decimal(n) ==
    (n \div 100000) * One + (n % 100000) * 671
        + ((n % 100000) * 8864 + 50000) \div 100000

\* 0, 0.5, 1, 2, -1.00005, the decimals from 1.00001 to 1.0001 of the
\* examples, and two neighbours of 1 less than a C float's step away
CompareValues ==
    {Decimal(n) : n \in {0, 50000, 100000, 100001, 100002, 100004, 100005, 100010, 200000}}
    \cup {-Decimal(100005), One + 3, One + 5}

\* export_vehicle.py lines 63-84: the call for the one number of a list
Compare ==
    /\ pc = "compare"
    /\ \E r \in {compare_and_set_value(current_jbeam_file_data,
                                       current_jbeam_file_data_modified,
                                       stack, i, FALSE, At(ast_nodes, i))} :
           /\ pc' = IF r.raised THEN "raised" ELSE "compared"
           /\ ast_nodes' = <<r.node>>
           /\ ret' = <<r.changed>>
    /\ UNCHANGED <<current_jbeam_file_data, current_jbeam_file_data_modified, jbeam_part,
                   nodes_to_add, nodes_to_delete, i, stack, in_dict, pos_in_arr,
                   temp_dict_key, dict_key, jbeam_entry_start_node_idx,
                   jbeam_entry_end_node_idx, jbeam_section_start_node_idx,
                   jbeam_section_end_node_idx, jbeam_node_id, ast_input, pass,
                   reconVars, exportVars, memo, jbeam_table, new_dict, input_options,
                   vehicle, calls, vehicle_input>>

InitCompare ==
    /\ ReconIdle /\ ExportIdle
    /\ memo = <<>> /\ jbeam_table = <<>> /\ new_dict = <<>> /\ input_options = <<>>
    /\ vehicle = <<>> /\ ret = <<>> /\ calls = <<>> /\ vehicle_input = <<>>
    /\ pass = 1 /\ i = 0 /\ stack = <<>> /\ in_dict = FALSE /\ pos_in_arr = 0
    /\ temp_dict_key = None /\ dict_key = None
    /\ jbeam_entry_start_node_idx = -1 /\ jbeam_entry_end_node_idx = -1
    /\ jbeam_section_start_node_idx = -1 /\ jbeam_section_end_node_idx = -1
    /\ jbeam_node_id = NoneVal
    /\ jbeam_part = "" /\ nodes_to_add = <<>> /\ nodes_to_delete = <<>>
    /\ pc = "compare"
    /\ \E old \in CompareValues, new \in CompareValues :
          /\ current_jbeam_file_data = ListVal(<<NumVal(old)>>)
          /\ current_jbeam_file_data_modified = ListVal(<<NumVal(new)>>)
          /\ ast_nodes = <<NumTok(old)>>
          /\ ast_input = <<NumTok(old)>>

NextCompare == Compare

SpecCompare == InitCompare /\ [][NextCompare]_vars

\* the before and the after value of the call
Before == current_jbeam_file_data.val[1].val

After == current_jbeam_file_data_modified.val[1].val

\* the token is flagged changed and holds the after value
Rewritten == ret = <<TRUE>> /\ ast_nodes[1].value = After

\* the token is not flagged and is as it was
Untouched == ret = <<FALSE>> /\ ast_nodes = ast_input

\* C20 as the spec has it: a number token is flagged changed, and rewritten,
\* only when the before and after values differ in their 4-decimal
\* rendering; a change from 1.00005 to 1.00004 is not flagged and leaves the
\* token untouched, a change from 1.0 to 1.0001 is flagged and rewrites it.
C20_FourDecimals ==
    pc = "compared" =>
        /\ ret = <<TRUE>> => to_float_str(Before) # to_float_str(After)
        /\ (Before = Decimal(100005) /\ After = Decimal(100004)) => Untouched
        /\ (Before = Decimal(100000) /\ After = Decimal(100010)) => Rewritten

\* C20, amended: a number token is flagged changed, and rewritten, only when
\* the before and after values differ as 32-bit floats: it is rewritten with
\* the after value when they do and left untouched when they do not; a
\* change from 1.00005 to 1.00004 is flagged and rewrites the token, as a
\* change from 1.0 to 1.0001 is, and a change from 1 + 3 * 2^-26 to 1.0,
\* within one 32-bit float, is not flagged and leaves the token untouched.
C20_FloatPrecision ==
    pc = "compared" =>
        /\ ret = <<TRUE>> => (to_c_float(Before) # to_c_float(After) /\ Rewritten)
        /\ ret = <<FALSE>> => Untouched
        /\ (Before = Decimal(100005) /\ After = Decimal(100004)) => Rewritten
        /\ (Before = Decimal(100000) /\ After = Decimal(100010)) => Rewritten
        /\ (Before = One + 3 /\ After = One) => Untouched

\* the call for a change from 1.00005 to 1.00004 has flagged the token: the
\* two have one 4-decimal rendering and are two 32-bit floats
C20_Reached ==
    /\ pc = "compared"
    /\ Before = Decimal(100005) /\ After = Decimal(100004)
    /\ to_float_str(Before) = to_float_str(After)
    /\ to_c_float(Before) # to_c_float(After)
    /\ Rewritten

-----------------------------------------------------------------------------
(* update_ast_nodes: where the scan resumes *)

\* the iteration at hand is the one of lines 470-475: the token at i closes
\* the target part's node table and there are rows to add
AtInsertion ==
    /\ pc = "scan" /\ i < Len(ast_nodes)
    /\ AtSectionEnd(At(ast_nodes, i))

\* the token the next iteration reads is the one that follows the token of
\* the input that was at index src
ResumesAfter(src) ==
    /\ i' >= 1 /\ i' - 1 < Len(ast_nodes')
    /\ At(ast_nodes', i' - 1).src = src

\* C21: after add_jbeam_nodes is called at the node table's closing bracket
\* the scan of update_ast_nodes goes on with the token that follows that
\* bracket, none skipped, and the stack is popped once for the bracket;
\* whether the separator after the last row has a newline, has none, or is
\* not there.
C21_ResumeAfterInsertion ==
    [][(AtInsertion /\ pc' = "scan")
          => /\ ResumesAfter(At(ast_nodes, i).src)
             /\ stack' = Slice(stack, 0, Len(stack) - 1)]_vars

\* rows were added to a table none was deleted from, the separator after
\* its last row holding no newline, and the bracket that closes the part
\* was not read: the part's frame is still on the stack in the next part
C21_Reached ==
    /\ pass = 1 /\ nodes_to_delete = <<>>
    /\ jbeam_section_end_node_idx >= 0
    /\ Len(stack) >= 2
    /\ At(stack, 0).key = PartName /\ At(stack, 1).key = OtherPart

\* the iteration at hand is the one of lines 481-487: the token at i closes a
\* row of the target part's node table whose id is in nodes_to_delete
AtDeletion ==
    /\ pc = "scan" /\ i < Len(ast_nodes)
    /\ AtEntryEnd(At(ast_nodes, i), PopFrame(stack).stack)
    /\ IdInDeletes(jbeam_node_id)

\* the tokens before index k are those of the input that came before the
\* token at index src, the tokens from k on those that came after it
\* (separators and new tokens aside): with the scan at k, each has been read
\* once or is still to be read
SplitsAt(t, k, src) ==
    \A p \in 1..Len(t) :
        (t[p].data_type # "wsc" /\ t[p].src >= 0) => (p - 1 < k <=> t[p].src < src)

\* C22: after delete_jbeam_node returns (in a pass over the tokens of the
\* input) the scan goes on so that every surviving token that is no
\* separator is read once in the pass: it
\* resumes with the first token that followed the deleted row, and the
\* closing bracket of the row before the deleted one is not read again,
\* also when no separator stands between the two rows and a separator with
\* no newline follows the deleted row.
C22_ResumeAfterDeletion ==
    [][(AtDeletion /\ pass = 1 /\ pc' = "scan")
          => SplitsAt(ast_nodes', i', At(ast_nodes, i).src)]_vars

\* index in the input of the bracket that closes the target part's node table
NodesCloseSrc == MatchClose(ast_input, NodesOpenSrc + 2, 1) - 1

\* with nothing to add, the scan is back at the closing bracket of a row it
\* has read, the row's frame popped: the bracket is about to be read again
C22_Reached ==
    /\ pc = "scan" /\ pass = 1 /\ nodes_to_add = <<>>
    /\ i < Len(ast_nodes)
    /\ At(ast_nodes, i).data_type = "]"
    /\ At(ast_nodes, i).src >= 0 /\ At(ast_nodes, i).src < NodesCloseSrc
    /\ Len(stack) = 2 /\ InPartNodes(stack)

-----------------------------------------------------------------------------
(* update_ast_nodes on node tables laid out in other ways *)

\* more separators found between two rows
GapTab   == <<",", NL, "\t">>                       \* one row per line, a tab for indent
GapBare  == <<NL, " ", " ">>                        \* one row per line, no comma
GapComma == <<",">>                                 \* a comma and nothing else
GapNote  == <<",", " ", "/", "*", "*", "/">>        \* a comment after the row, on its line
GapDeep  == <<",", " ", NL, NL, " ", " ", " ", " ">>    \* an empty line, then four spaces

LayoutGaps == Gaps \cup {GapTab, GapBare, GapComma, GapNote, GapDeep}

FirstGaps == {GapNone, GapLine, GapTab}

LayoutGapSeqs ==
    {GapsOf(first, between, last, n) :
        first \in FirstGaps, between \in LayoutGaps, last \in LayoutGaps, n \in 0..MaxRows}

HeaderId == "id"

\* nodes_to_delete: rows of the table, or the text of the header's first cell
DeleteDicts(n) ==
    {DeleteDict(ks, 1, n) : ks \in SUBSET (1..n)} \cup {<<<<HeaderId, RowPos(1)>>>>}

InitLayout ==
    /\ ReconIdle /\ ExportIdle /\ SchemaIdle
    /\ \E gaps \in LayoutGapSeqs, nAdds \in 0..MaxAdds :
       \E deletes \in DeleteDicts(Len(gaps) - 1) :
        LET toks == FileToks(gaps, TRUE)
            tree == FileTree(Len(gaps) - 1)
        IN  /\ ast_input = toks
            /\ InitScan(toks, tree, tree, PartName, AddDict(nAdds), deletes, 1)

NextLayout == SkipSeparator \/ ScanToken \/ ScanClose \/ Return

SpecLayout == InitLayout /\ [][NextLayout]_vars

-----------------------------------------------------------------------------
(* add_jbeam_nodes: the claims *)

\* the token of t that was at index src of the input
TokOfSrc(t, src) == t[PosOfSrc(t, src, 1)]

StartsWith(text, prefix) == Slice(text, 0, Len(prefix)) = prefix

\* sep, the separator before the bracket br, is in t split as said: what
\* precedes its first newline still stands after the last existing row,
\* before the first new row, and the rest stands after the last new row,
\* before the bracket; all of it where it was when it holds no newline
SplitKept(t, sep, br) ==
    LET nl == FirstIndex(sep.value, NL)
        p  == PosOfSrc(t, sep.src, 1)
        c  == PosOfSrc(t, br.src, 1)
    IN  /\ p > 0 /\ c > p + 1
        /\ t[p].data_type = "wsc"
        /\ t[p + 1].data_type = "[" /\ t[p + 1].src = -1
        /\ IF nl >= 0
           THEN /\ StartsWith(t[p].value, Slice(sep.value, 0, nl))
                /\ t[c - 1].data_type = "wsc"
                /\ t[c - 1].value = SliceFrom(sep.value, nl)
                /\ t[c - 2].data_type = "]" /\ t[c - 2].src = -1
           ELSE StartsWith(t[p].value, sep.value)

\* C23: when add_jbeam_nodes splits the separator that follows the last
\* existing row, every character of it is still there, in order: what
\* precedes the first newline stays before the inserted rows, the rest
\* follows the last inserted row; a separator with no newline keeps its
\* whole text.
C23_SplitKeepsText ==
    [][(AtInsertion /\ pc' = "scan" /\ At(ast_nodes, i - 1).data_type = "wsc")
          => SplitKept(ast_nodes', At(ast_nodes, i - 1), At(ast_nodes, i))]_vars

\* rows were added after a last row followed by a comment on its line,
\* nothing was deleted, and the comment is no longer whole
C23_Reached ==
    /\ pc = "done" /\ nodes_to_delete = <<>> /\ nodes_to_add # <<>>
    /\ At(ast_input, NodesCloseSrc - 1).value = GapNote
    /\ PosOfSrc(ast_nodes, NodesCloseSrc - 1, 1) > 0
    /\ ~StartsWith(TokOfSrc(ast_nodes, NodesCloseSrc - 1).value, GapNote)

EndsWith(text, suffix) ==
    Len(text) >= Len(suffix) /\ SliceFrom(text, Len(text) - Len(suffix)) = suffix

\* the text after the last newline of the nearest separator holding one,
\* going back from index j to the table's opening bracket; <<NL>> when no
\* separator there holds a newline
RECURSIVE IndentText(_, _, _)
IndentText(t, j, section_start) ==
    IF j <= section_start THEN <<NL>>
    ELSE IF HasNewline(At(t, j))
         THEN SliceFrom(At(t, j).value, LastIndex(At(t, j).value, NL) + 1)
    ELSE IndentText(t, j - 1, section_start)

\* the positions in t of the brackets that open the rows made by the patch
NewRowsIn(t) == {p \in 2..Len(t) : t[p].data_type = "[" /\ t[p].src = -1}

\* every new row of t stands after a newline and the text indent
IndentedBy(t, indent) ==
    \A p \in NewRowsIn(t) :
        t[p - 1].data_type = "wsc" /\ EndsWith(t[p - 1].value, <<NL>> \o indent)

\* C24: each inserted row is preceded by a newline and then the very text
\* that follows the most recent newline of the separators of the node table,
\* going back from the last existing row: tabs stay tabs, spaces keep their
\* number.
C24_IndentKept ==
    [][(/\ AtInsertion /\ pc' = "scan"
        /\ IndentText(ast_nodes, i - 2, jbeam_section_start_node_idx) # <<NL>>)
          => IndentedBy(ast_nodes',
                        IndentText(ast_nodes, i - 2, jbeam_section_start_node_idx))]_vars

\* rows were added to a table whose rows are indented by a tab, nothing was
\* deleted, and a new row stands after a newline and a space
C24_Reached ==
    /\ pc = "done" /\ nodes_to_delete = <<>> /\ nodes_to_add # <<>>
    /\ \E k \in 1..Len(ast_input) :
          ast_input[k].data_type = "wsc" /\ ast_input[k].value = GapTab
    /\ \E p \in NewRowsIn(ast_nodes) : EndsWith(ast_nodes[p - 1].value, <<NL, " ">>)

\* the text of the separators that end at position p of t
RECURSIVE SepBefore(_, _)
SepBefore(t, p) ==
    IF p < 1 \/ t[p].data_type # "wsc" THEN <<>> ELSE SepBefore(t, p - 1) \o t[p].value

HasComma(text) == FirstIndex(text, ",") >= 0

\* a separator made by the patch that holds a comma and nothing else
IsNewComma(node) == node.data_type = "wsc" /\ node.src = -1 /\ node.value = <<",">>

\* the new rows of t are comma-separated, each from the row before it, and
\* no comma was put after the last of them
CommaSeparated(t) ==
    /\ \A p \in NewRowsIn(t) :
          HasComma(SepBefore(t, p - 1))
    /\ \A p \in NewRowsIn(t) :
          (\A q \in NewRowsIn(t) : q <= p) => ~IsNewComma(t[MatchClose(t, p + 1, 1) + 1])

\* C25: after add_jbeam_nodes every inserted row is separated from the row
\* before it, the last existing row or the row inserted before it, by
\* separator text that holds a comma, and no comma is inserted after the
\* last inserted row.
C25_CommaSeparated ==
    [][(AtInsertion /\ pc' = "scan") => CommaSeparated(ast_nodes')]_vars

\* rows were added after a last row followed by a newline and no comma,
\* nothing was deleted, and no comma stands before the first new row
C25_Reached ==
    /\ pc = "done" /\ nodes_to_delete = <<>> /\ nodes_to_add # <<>>
    /\ At(ast_input, NodesCloseSrc - 1).data_type = "wsc"
    /\ At(ast_input, NodesCloseSrc - 1).value = GapBare
    /\ \E p \in NewRowsIn(ast_nodes) : ~HasComma(SepBefore(ast_nodes, p - 1))

-----------------------------------------------------------------------------
(* delete_jbeam_node: the claims *)

\* index of the bracket that opens the row closed at index k
RECURSIVE OpenOf(_, _)
OpenOf(t, k) == IF k <= 0 \/ At(t, k).data_type = "[" THEN k ELSE OpenOf(t, k - 1)

\* the separator before and the separator after the row closed at i
PrevOfRow == At(ast_nodes, OpenOf(ast_nodes, i) - 1)
NextOfRow == At(ast_nodes, i + 1)

\* the row closed at i has its line to itself
Alone == HasNewline(PrevOfRow) /\ HasNewline(NextOfRow)

RECURSIVE Newlines(_)
Newlines(text) ==
    IF text = <<>> THEN 0 ELSE (IF Head(text) = NL THEN 1 ELSE 0) + Newlines(Tail(text))

UpToLastNewline(text) == Slice(text, 0, LastIndex(text, NL) + 1)

AfterFirstNewline(text) == SliceFrom(text, FirstIndex(text, NL) + 1)

\* the separator text of t in front of the token that was at index src
SepInFrontOf(t, src) == SepBefore(t, PosOfSrc(t, src, 1) - 1)

\* C26: when a row that is alone on its line is deleted (a newline in the
\* separator before it and in the separator after it), the separator before
\* it is kept, cut to end at its last newline, the indentation that followed
\* the row's line still stands in front of the next token, and the two
\* separators hold one newline less than before.
C26_DeleteAlone ==
    [][(AtDeletion /\ pass = 1 /\ Alone /\ pc' = "scan")
          => /\ SepInFrontOf(ast_nodes', At(ast_nodes, i + 2).src)
                  = UpToLastNewline(PrevOfRow.value) \o AfterFirstNewline(NextOfRow.value)
             /\ Newlines(SepInFrontOf(ast_nodes', At(ast_nodes, i + 2).src))
                  = Newlines(PrevOfRow.value) + Newlines(NextOfRow.value) - 1]_vars

\* the one row to delete stood between an empty line and a line indented by
\* a tab, and the pass that deleted it has returned
C26_Reached ==
    /\ pc = "done" /\ pass = 1 /\ Len(nodes_to_delete) = 1
    /\ \E p \in 3..(NodesCloseSrc - 8) :
          /\ ast_input[p].data_type = StrT /\ ast_input[p].value = nodes_to_delete[1][1]
          /\ ast_input[p - 1].data_type = "["
          /\ ast_input[p - 2].data_type = "wsc" /\ ast_input[p - 2].value = GapDeep
          /\ ast_input[p + 8].data_type = "wsc" /\ ast_input[p + 8].value = GapTab
          /\ PosOfSrc(ast_nodes, p - 2, 1) = 0
          /\ SepInFrontOf(ast_nodes, p + 8) = <<",", " ", NL, NL, "\t">>

\* the text of a token when it is a separator
TextOf(node) == IF node.data_type = "wsc" THEN node.value ELSE <<>>

\* after the step the text in front of the token that followed the
\* separator after the row is what stood before the row and then rest, and
\* that separator is gone when rest is empty
TrailingLeft(rest) ==
    /\ SepInFrontOf(ast_nodes', At(ast_nodes, i + 2).src) = TextOf(PrevOfRow) \o rest
    /\ rest = <<>> => PosOfSrc(ast_nodes', NextOfRow.src, 1) = 0

ThroughNewline(text) ==
    IF FirstIndex(text, NL) >= 0 THEN AfterFirstNewline(text) ELSE <<>>

BeforeNewline(text) ==
    IF FirstIndex(text, NL) >= 0 THEN SliceFrom(text, FirstIndex(text, NL)) ELSE <<>>

\* the row closed at i shares its line and a separator follows it
SharesLine == ~Alone /\ NextOfRow.data_type = "wsc"

\* C27 as the spec has it: when a row that is not alone on its line is
\* deleted, the content of the separator after it is deleted up to and
\* including its next newline, and that separator is removed when nothing
\* remains of it.
C27_TrailingThroughNewline ==
    [][(AtDeletion /\ pass = 1 /\ SharesLine /\ pc' = "scan")
          => TrailingLeft(ThroughNewline(NextOfRow.value))]_vars

\* C27, amended: when a row that is not alone on its line is deleted, the
\* content of the separator after it is deleted up to its next newline,
\* which stays, or all of it when it holds no newline, and that separator is
\* removed when nothing remains of it.
C27_TrailingBeforeNewline ==
    [][(AtDeletion /\ pass = 1 /\ SharesLine /\ pc' = "scan")
          => TrailingLeft(BeforeNewline(NextOfRow.value))]_vars

\* the one row to delete stood on the line of the row before it, a newline
\* after it, and the pass that deleted it has returned: the newline is there
C27_Reached ==
    /\ pc = "done" /\ pass = 1 /\ Len(nodes_to_delete) = 1
    /\ \E p \in 3..(NodesCloseSrc - 8) :
          /\ ast_input[p].data_type = StrT /\ ast_input[p].value = nodes_to_delete[1][1]
          /\ ast_input[p - 1].data_type = "["
          /\ ast_input[p - 2].data_type = "wsc" /\ ast_input[p - 2].value = GapInline
          /\ ast_input[p + 8].data_type = "wsc" /\ ast_input[p + 8].value = GapLine
          /\ PosOfSrc(ast_nodes, p - 2, 1) = 0
          /\ SepInFrontOf(ast_nodes, p + 8) = <<",", " ", NL, " ", " ">>

-----------------------------------------------------------------------------
(* table_schema: tables whose rows name one field in more than one place *)

Field(f, v) == <<PyStr(f), v>>

\* rows under the header [id, x]: a plain row, a row of one cell, rows with a
\* trailing map that names the column x, the field group or both, and bare
\* maps that set x, group or both
OverlapRows ==
    {TableRow("n1", 1),
     PyList(<<PyStr("n3")>>),
     PyList(<<PyStr("n1"), PyInt(1), PyDict(<<Field("x", PyInt(7))>>)>>),
     PyList(<<PyStr("n2"), PyInt(2), PyDict(<<Field("group", PyStr("Y")),
                                              Field("x", PyInt(7))>>)>>),
     PyList(<<PyStr("n2"), PyInt(2), Group("Y")>>),
     PyDict(<<Field("x", PyInt(9))>>),
     PyDict(<<Field("x", PyInt(9)), Field("group", PyStr("X"))>>)}

OverlapTables ==
    {<<PyList(<<PyStr("id"), PyStr("x")>>)>> \o rows :
        rows \in UNION {[1..n -> OverlapRows] : n \in 0..MaxTableRows}}

OverlapOptions == {None, PyDict(<<Field("x", PyInt(8)), Field("group", PyStr("Z"))>>)}

\* the fields a row can get from more than one place
OverlapFields == {"x", "group"}

InitOverlap ==
    /\ ScanIdle /\ ReconIdle /\ ExportIdle
    /\ current_jbeam_file_data = None /\ current_jbeam_file_data_modified = None
    /\ jbeam_part = "" /\ nodes_to_add = <<>> /\ nodes_to_delete = <<>>
    /\ pc = "call"
    /\ memo = <<>> /\ new_dict = <<>> /\ ret = None /\ calls = <<>>
    /\ vehicle = <<>> /\ vehicle_input = <<>>
    /\ jbeam_table \in OverlapTables
    /\ input_options \in OverlapOptions

NextOverlap == CallTable

SpecOverlap == InitOverlap /\ [][NextOverlap]_vars

\* the cell of sequence row k in the column named f, None when the header has
\* no such column or the row no such cell
CellFor(table, k, f) ==
    LET row == At(RowsOf(table), k)[2]
        at  == {c \in 0..(ColumnsOf(table) - 1) :
                    At(HeaderOf(table), c) = PyStr(f) /\ c < Len(row)}
    IN  IF at = {} THEN None ELSE At(row, CHOOSE c \in at : TRUE)

\* the trailing map of sequence row k, empty when the row has none
TrailingFor(table, k) ==
    LET row == At(RowsOf(table), k)[2]
    IN  IF Len(row) = ColumnsOf(table) + 1 /\ IsRowMap(row[Len(row)])
        THEN row[Len(row)][2] ELSE <<>>

\* the bare maps before row k that set the field f
SettersBefore(table, k, f) ==
    {j \in 0..(k - 1) : /\ IsRowMap(At(RowsOf(table), j))
                        /\ DictHas(At(RowsOf(table), j)[2], PyStr(f))}

\* what the options accumulator holds for the field f at row k: the value of
\* the nearest bare map before the row, else of the options the call came
\* with, None when neither sets it
AccumulatedFor(table, options, k, f) ==
    IF SettersBefore(table, k, f) # {}
    THEN DictGet(At(RowsOf(table),
                    CHOOSE j \in SettersBefore(table, k, f) :
                        \A o \in SettersBefore(table, k, f) : o <= j)[2], PyStr(f))
    ELSE IF options # None /\ DictHas(options[2], PyStr(f))
    THEN DictGet(options[2], PyStr(f))
    ELSE None

\* the stored row map of row k holds v for the field f, no field f when v is None
HoldsField(call, k, f, v) ==
    IF v = None THEN ~DictHas(Stored(call, k), PyStr(f))
    ELSE /\ DictHas(Stored(call, k), PyStr(f))
         /\ DictGet(Stored(call, k), PyStr(f)) = v

\* the first of three values that is not None
FirstOf(a, b, c) == IF a # None THEN a ELSE IF b # None THEN b ELSE c

TrailingValue(table, k, f) ==
    IF DictHas(TrailingFor(table, k), PyStr(f))
    THEN DictGet(TrailingFor(table, k), PyStr(f)) ELSE None

\* C28: field precedence for a sequence row. In the output of every call that
\* returned a row count, the stored row map of a sequence row holds for a
\* field the value of the row's trailing map when that names the field, else
\* the row's positional cell in the column of that name, else the value of the
\* options accumulator: the trailing map wins over the cell and the cell over
\* the accumulator.
C28_TrailingMapFirst ==
    \A n \in JustCounted :
        \A k \in SeqRowsOf(calls[n].jbeam_table) :
            LastOfKey(calls[n].jbeam_table, k) =>
                \A f \in OverlapFields :
                    HoldsField(calls[n], k, f,
                          FirstOf(TrailingValue(calls[n].jbeam_table, k, f),
                                  CellFor(calls[n].jbeam_table, k, f),
                                  AccumulatedFor(calls[n].jbeam_table,
                                                 calls[n].input_options, k, f)))

\* C28 as the code has it: the stored row map of a sequence row holds for a
\* field the row's positional cell in the column of that name, else the value
\* of the row's trailing map when that names the field, else the value of the
\* options accumulator: the cell wins over the trailing map and the trailing
\* map over the accumulator.
C28_CellFirst ==
    \A n \in JustCounted :
        \A k \in SeqRowsOf(calls[n].jbeam_table) :
            LastOfKey(calls[n].jbeam_table, k) =>
                \A f \in OverlapFields :
                    HoldsField(calls[n], k, f,
                          FirstOf(CellFor(calls[n].jbeam_table, k, f),
                                  TrailingValue(calls[n].jbeam_table, k, f),
                                  AccumulatedFor(calls[n].jbeam_table,
                                                 calls[n].input_options, k, f)))

\* the table [[id,x],{x:9,group:X},[n2,2,{group:Y,x:7}]] has been processed
\* with the options {x:8,group:Z}: n2 holds the cell's x, 2, and the
\* trailing map's group, Y
C28_Reached ==
    /\ pc = "called" /\ Len(calls) = 1
    /\ calls[1].input_options # None
    /\ Len(calls[1].jbeam_table) = 3
    /\ IsRowMap(calls[1].jbeam_table[2])
    /\ DictHas(calls[1].jbeam_table[2][2], PyStr("group"))
    /\ TrailingValue(calls[1].jbeam_table, 1, "x") = PyInt(7)
    /\ TrailingValue(calls[1].jbeam_table, 1, "group") = PyStr("Y")
    /\ ret = <<1>>
    /\ DictGet(Stored(calls[1], 1), PyStr("x")) = PyInt(2)
    /\ DictGet(Stored(calls[1], 1), PyStr("group")) = PyStr("Y")

-----------------------------------------------------------------------------
(* update_ast_nodes: the rows after a deleted row *)

\* the path is one of a cell of a row of the target part's node table
InTargetTable(p) == p.has /\ Len(p.stk) = 3 /\ InPartNodes(p.stk)

\* the index in the trees of the row a cell's path is in, the header's being 0
RowIndexOf(p) == p.stk[3].key

\* the indices of the input's rows, after the header, whose id is in
\* nodes_to_delete; paths are the paths of the input's tokens
DeletedRowIndices(paths) ==
    {RowIndexOf(paths[k]) : k \in
        {k \in 1..Len(ast_input) :
            /\ InTargetTable(paths[k])
            /\ RowIndexOf(paths[k]) >= 1
            /\ paths[k].key = 0
            /\ ast_input[k].data_type = StrT
            /\ DictHas(nodes_to_delete, ast_input[k].value)}}

\* the token is a cell of the input that stands in a row after a deleted one
AfterDeletedRow(paths, node) ==
    /\ IsScalar(node) /\ node.src >= 0
    /\ InTargetTable(paths[node.src + 1])
    /\ \E d \in DeletedRowIndices(paths) : d < RowIndexOf(paths[node.src + 1])

\* C29: path alignment across deletions. When a pass of update_ast_nodes over
\* the tokens of the input has ended, every cell of a row of the target table
\* that stands after a deleted row and is still there holds the after-tree's
\* value of its own row and column, the row's index counting the deleted rows.
C29_AlignedAfterDeletion ==
    (pc \in {"done", "raised"} /\ pass = 1 /\ nodes_to_delete # <<>>) =>
        \A paths \in {Paths(ast_input)} :
            \A k \in 1..Len(ast_nodes) :
                AfterDeletedRow(paths, ast_nodes[k]) =>
                    Holds(ast_nodes[k],
                          ValueAt(current_jbeam_file_data_modified,
                                  paths[ast_nodes[k].src + 1]))

\* a pass that deleted the first row and nothing else has returned, and the
\* second row holds the id and the posX the after-tree has for it, both new
C29_Reached ==
    /\ pc = "done" /\ pass = 1
    /\ Len(nodes_to_delete) = 1
    /\ \E paths \in {Paths(ast_input)} :
          /\ DeletedRowIndices(paths) = {1}
          /\ \E k \in 1..(Len(ast_nodes) - 2) :
                /\ AfterDeletedRow(paths, ast_nodes[k])
                /\ ast_nodes[k].data_type = StrT /\ ast_nodes[k].value = "r2"
                /\ ast_input[ast_nodes[k].src + 1].value # "r2"
                /\ ast_nodes[k + 2].data_type = "number"
                /\ ast_nodes[k + 2].value # ast_input[ast_nodes[k + 2].src + 1].value

-----------------------------------------------------------------------------
(* update_ast_nodes: the header row *)

\* where the header row of the target table opens in the input, from 0
HeaderOpenSrc == NodesOpenSrc + 1

\* the tokens of the input's header row, brackets included, are in t, in a row
HeaderIn(t) ==
    LET close == MatchClose(ast_input, HeaderOpenSrc + 2, 1) - 1
        at    == PosOfSrc(t, HeaderOpenSrc, 1)
    IN  /\ at # 0
        /\ at + (close - HeaderOpenSrc) <= Len(t)
        /\ \A d \in 0..(close - HeaderOpenSrc) : t[at + d].src = HeaderOpenSrc + d

\* C30: the header stays. When a pass of update_ast_nodes over the tokens of
\* the input has ended, whatever nodes_to_delete holds, the header row of the
\* target part's node table is still in the tokens.
C30_HeaderStays ==
    (pc \in {"done", "raised"} /\ pass = 1) => HeaderIn(ast_nodes)

\* a pass whose nodes_to_delete holds the text of the header's first cell has
\* returned
C30_Reached ==
    /\ pc = "done" /\ pass = 1
    /\ DictHas(nodes_to_delete, HeaderId)
    /\ ast_input[HeaderOpenSrc + 2].value = HeaderId

-----------------------------------------------------------------------------
(* update_ast_nodes: the loop ends *)

\* the tables whose first row stands on a line of its own
EndsGapSeqs == {gaps \in GapSeqs : gaps[1] = GapLine}

\* a patch that changes no value: rows to delete, and no row to add or all of them
InitEnds ==
    /\ ReconIdle /\ ExportIdle /\ SchemaIdle
    /\ \E gaps \in EndsGapSeqs, nAdds \in {0, MaxAdds} :
       \E ks \in SUBSET (1..(Len(gaps) - 1)) :
        LET toks == FileToks(gaps, TRUE)
            tree == FileTree(Len(gaps) - 1)
        IN  /\ ast_input = toks
            /\ InitScan(toks, tree, tree, PartName,
                        AddDict(nAdds), DeleteDict(ks, 1, Len(gaps) - 1), 1)

NextEnds == SkipSeparator \/ ScanToken \/ ScanClose \/ Return

\* The interpreter goes on with the loop of lines 391-492 as long as a step
\* of it can be taken
SpecEnds == InitEnds /\ [][NextEnds]_vars /\ WF_vars(NextEnds)

\* how many rows the patch has written for the id
InsertedTimes(id) ==
    Cardinality({k \in 1..Len(ast_nodes) :
                    /\ ast_nodes[k].src = -1
                    /\ ast_nodes[k].data_type = StrT
                    /\ ast_nodes[k].value = id})

\* how many of the input's rows, header included, are still in the tokens
RowsLeft(t) ==
    Cardinality({k \in 1..Len(t) :
                    /\ t[k].data_type = "["
                    /\ t[k].src > NodesOpenSrc /\ t[k].src < NodesCloseSrc})

\* the loop has ended with the index at the end of the tokens, and no entry of
\* nodes_to_add was written more than once
Ended ==
    /\ pc = "done"
    /\ i = Len(ast_nodes)
    /\ \A k \in 1..Len(nodes_to_add) : InsertedTimes(nodes_to_add[k][1]) <= 1

\* C31: termination. From every point of the scan loop of update_ast_nodes
\* the loop comes to its end with the scan index at the end of the tokens as
\* they then are, and with no entry of nodes_to_add written more than once.
C31_ScanEnds == (pc = "scan") ~> Ended

\* a loop that deleted a row and wrote every entry of nodes_to_add once has
\* ended with the index at the end of the tokens
C31_Reached ==
    /\ Ended
    /\ nodes_to_delete # <<>>
    /\ RowsLeft(ast_nodes) < RowsLeft(ast_input)
    /\ Len(nodes_to_add) = MaxAdds
    /\ \A k \in 1..Len(nodes_to_add) : InsertedTimes(nodes_to_add[k][1]) = 1

-----------------------------------------------------------------------------
(* table_schema: the caller writes to the map a call has filled *)

\* tables under the header [id, x]: plain rows and a bare map
MemoRows == {TableRow("n1", 1), TableRow("n2", 2), Group("X")}

MemoTables ==
    {<<PyList(<<PyStr("id"), PyStr("x")>>)>> \o rows :
        rows \in UNION {[1..n -> MemoRows] : n \in 0..MaxTableRows}}

\* what a caller can do to an output map: add a row, remove one, change a
\* field of one
Writes(d) ==
    {DictSet(d, PyStr("extra"), PyDict(<<>>))}
    \cup (IF d = <<>> THEN {}
          ELSE {DictPop(d, d[1][1]),
                DictSet(d, d[1][1],
                        PyDict(DictSet(d[1][2][2], PyStr("x"), PyInt(99))))})

\* a memo whose entries are the output maps themselves: a write to the map
\* old, which makes it new, is a write to every entry that holds it
MemoShared(mem, old, new) ==
    [k \in 1..Len(mem) |-> IF mem[k][2][1] = old
                           THEN <<mem[k][1], <<new, mem[k][2][2]>>>> ELSE mem[k]]

\* table_schema.py line 210: memo holds pickle.dumps(new_dict), bytes made at
\* the end of the call; a later write to the map old, which makes it new,
\* leaves them as they are
MemoAfterWrite(mem, old, new) == mem

\* table_schema.py lines 304-309: the caller keeps the map the call filled as
\* the section of the vehicle, and writes to it
WriteOutput ==
    /\ pc = "called" /\ Len(calls) < MaxCalls
    /\ ret # <<Failure>> /\ vehicle = <<>>
    /\ \E w \in Writes(new_dict) :
          /\ new_dict' = w
          /\ vehicle' = Section("nodes", PyDict(w))
          /\ memo' = MemoAfterWrite(memo, new_dict, w)
    /\ UNCHANGED <<pc, jbeam_table, input_options, ret, calls, vehicle_input, schemaFrame>>

InitMemo ==
    /\ ScanIdle /\ ReconIdle /\ ExportIdle
    /\ current_jbeam_file_data = None /\ current_jbeam_file_data_modified = None
    /\ jbeam_part = "" /\ nodes_to_add = <<>> /\ nodes_to_delete = <<>>
    /\ pc = "call"
    /\ memo = <<>> /\ new_dict = <<>> /\ ret = None /\ calls = <<>>
    /\ vehicle = <<>> /\ vehicle_input = <<>>
    /\ jbeam_table \in MemoTables
    /\ input_options \in OptionSets

NextMemo == CallTable \/ WriteOutput \/ CallAgain

SpecMemo == InitMemo /\ [][NextMemo]_vars

\* C32: memo cache isolation. Of every call that has returned: when an
\* earlier call with the content of its table and options returned a row
\* count, the call returns that row count and leaves in its output map, empty
\* at the call, the map the earlier call left in its own, whatever the caller
\* has written to that map since.
C32_MemoIsolated ==
    \A n \in JustCalled :
        \A m \in EarlierSame(n) :
            /\ calls[n].ret = calls[m].ret
            /\ calls[n].new_dict = calls[m].new_dict

\* a table of two rows was processed, the caller removed a row from the map
\* or changed it, and a second call with the same table and options has been
\* served from memo
C32_Reached ==
    /\ pc = "called" /\ Len(calls) = 2
    /\ SameContent(1, 2) /\ calls[2].hit
    /\ Len(calls[1].new_dict) = 2
    /\ vehicle # <<>>
    /\ vehicle[1][2] # PyDict(calls[1].new_dict)
    /\ PyStr("extra") \notin DictKeys(vehicle[1][2][2])
    /\ new_dict = calls[1].new_dict

-----------------------------------------------------------------------------
(* _get_nodes_add_delete_rename: what it leaves in the mesh and in the trees *)

\* the reconciler has run, to its return or to an exception
HasRun == pc \in {"returned", "raised"}

\* C33: the reconciler's side effect on node identity. In no step of
\* _get_nodes_add_delete_rename is the before-tree changed, and once it has
\* run for a part the mesh has the verts it had, every vert the part owns
\* with its init id equal to its id, every other vert with the init id it had.
C33_InitIdsReset ==
    [][/\ current_jbeam_file_data' = current_jbeam_file_data
       /\ HasRun' =>
             /\ Len(bm') = Len(bm_input')
             /\ \A k \in 1..Len(bm') :
                   /\ bm'[k].node_id = bm_input'[k].node_id
                   /\ bm'[k].node_part_origin = bm_input'[k].node_part_origin
                   /\ bm'[k].co = bm_input'[k].co
                   /\ bm'[k].init_node_id =
                         IF bm'[k].node_part_origin = jbeam_part'
                         THEN bm'[k].node_id ELSE bm_input'[k].init_node_id]_vars

\* the reconciler has returned for a mesh with a renamed vert of the part and
\* a renamed vert of another part: the first has its id as init id, the
\* second the init id it had
C33_Reached ==
    /\ pc = "returned"
    /\ \E k \in 1..Len(bm) :
          /\ bm_input[k].node_part_origin = jbeam_part
          /\ bm_input[k].init_node_id # bm_input[k].node_id
          /\ bm[k].init_node_id = bm[k].node_id
    /\ \E k \in 1..Len(bm) :
          /\ bm_input[k].node_part_origin # jbeam_part
          /\ bm[k].init_node_id # bm[k].node_id
          /\ bm[k].init_node_id = bm_input[k].init_node_id

====
